---- MODULE Spec2Model ----
(***************************************************************************)
(* Model of the scaffold-ai backend core: the LangGraph workflow           *)
(* (graph/workflow.py, graph/nodes.py), the Architect merge and the        *)
(* static security review (agents/security_specialist.py).                 *)
(*                                                                         *)
(* Python values are modelled as follows.                                  *)
(*   dict        a function over string keys (a record); a key that is     *)
(*               absent in Python is absent from DOMAIN                    *)
(*   list, str   a sequence; a string the code only copies is an atom      *)
(*   None        the value None below                                      *)
(*   an id       the sequence of its dash-separated pieces, so that        *)
(*               "api-1" is <<"api", "1">> and f"e-{s}-{t}" is             *)
(*               <<"e">> \o s \o t                                         *)
(*   exception   the result record Raise(name)                             *)
(***************************************************************************)
EXTENDS Integers, Sequences, FiniteSets, TLC

VARIABLES
    pc,      \* the workflow node or router that runs next
    state,   \* the GraphState record threaded through the workflow
    entry,   \* the GraphState the most recently run node received
    llm,     \* the reply of the most recent collaborator call
    request  \* the GraphState the run was started with

vars == <<pc, state, entry, llm, request>>

-----------------------------------------------------------------------------
(* Bounds of the model.                                                    *)

\* longest node list of a drafting reply
MaxIncomingNodes == 2
\* longest edge list of a drafting reply
MaxIncomingEdges == 1
\* most api nodes of a reviewed graph
MaxApiNodes == 7
\* most nodes of any other single type in a reviewed graph
MaxOtherNodes == 2

-----------------------------------------------------------------------------
(* Python values.                                                          *)

None == [py_none |-> TRUE]

EmptyDict == [k \in {} |-> TRUE]

\* d.get(k, default)
Get(d, k, default) == IF k \in DOMAIN d THEN d[k] ELSE default

\* bool(d) for a value that is None or a dict
Truthy(d) == d # None /\ DOMAIN d # {}

Ok(v) == [ok |-> TRUE, value |-> v]

Raise(e) == [ok |-> FALSE, exc |-> e]

\* {**d, k: v}
With(d, k, v) == [x \in DOMAIN d \cup {k} |-> IF x = k THEN v ELSE d[x]]

Range(s) == {s[i] : i \in DOMAIN s}

SeqsUpTo(S, n) == UNION {[1..k -> S] : k \in 0..n}

-----------------------------------------------------------------------------
(* Layout: generate_node_positions.                                        *)

COLUMN_WIDTH == 320
ROW_HEIGHT == 200
START_X == 50
START_Y == 50

\* type_columns.get(node_type, 2)
type_columns(node_type) ==
    CASE node_type \in {"frontend", "cdn"} -> 0
      [] node_type = "auth" -> 1
      [] node_type = "api" -> 2
      [] node_type \in {"lambda", "workflow"} -> 3
      [] node_type \in {"queue", "events", "notification"} -> 4
      [] node_type = "stream" -> 5
      [] node_type \in {"database", "storage"} -> 6
      [] OTHER -> 2

\* node.get("data", {}).get("type", default)
DataType(node, default) == Get(Get(node, "data", EmptyDict), "type", default)

\* a variant that starts every lane at row 0, whatever the canvas holds
ExistingColumnCounts_Empty(existing_nodes) == [col \in 0..6 |-> 0]

\* column_counts after the loop over existing_nodes
ExistingColumnCounts(existing_nodes) ==
    [col \in 0..6 |->
        Cardinality({i \in DOMAIN existing_nodes :
                        type_columns(DataType(existing_nodes[i], "api")) = col})]

\* the loop over the new nodes; node["id"] raises KeyError when id is absent
RECURSIVE PositionLoop(_, _, _)
PositionLoop(nodes, column_counts, positioned_nodes) ==
    IF nodes = <<>> THEN Ok(positioned_nodes)
    ELSE LET node == Head(nodes)
             node_type == Get(node, "type", "api")
             col == type_columns(node_type)
             row == column_counts[col]
         IN  IF "id" \notin DOMAIN node THEN Raise("KeyError")
             ELSE PositionLoop(
                    Tail(nodes),
                    [column_counts EXCEPT ![col] = @ + 1],
                    Append(positioned_nodes,
                           [id |-> node.id,
                            type |-> node_type,
                            position |-> [x |-> START_X + col * COLUMN_WIDTH,
                                          y |-> START_Y + row * ROW_HEIGHT],
                            data |-> [label |-> Get(node, "label", "Component"),
                                      type |-> node_type,
                                      description |-> Get(node, "description", "")]]))

generate_node_positions(nodes, existing_nodes) ==
    PositionLoop(nodes, ExistingColumnCounts(existing_nodes), <<>>)

-----------------------------------------------------------------------------
(* The text of a collaborator reply is a sequence of tokens: the two      *)
(* fences FENCE_JSON and FENCE, "OBJ" for the serialisation of one JSON    *)
(* value (carried in the obj field of the reply), "BAD" for text that is   *)
(* not JSON and "PROSE" for free text.                                     *)

\* the json fence (three backticks and the word json) and the plain fence
FENCE_JSON == "FENCE_JSON"
FENCE == "FENCE"

\* index of the first token of text that is in S, or Len(text) + 1
FirstIn(text, S) ==
    IF \E i \in DOMAIN text : text[i] \in S
    THEN CHOOSE i \in DOMAIN text :
            text[i] \in S /\ \A j \in 1..(i - 1) : text[j] \notin S
    ELSE Len(text) + 1

\* text.split(sep)[0]; the json fence contains the plain fence
SplitHead(text, S) == SubSeq(text, 1, FirstIn(text, S) - 1)

\* the text after the first separator
AfterFirst(text, S) == SubSeq(text, FirstIn(text, S) + 1, Len(text))

\* the fence removal of architect_node and security_review_node
StripFences(text) ==
    IF \E i \in DOMAIN text : text[i] = FENCE_JSON
    THEN \* the text between the first json fence and the next fence
         SplitHead(AfterFirst(text, {FENCE_JSON}), {FENCE, FENCE_JSON})
    ELSE IF \E i \in DOMAIN text : text[i] = FENCE
    THEN \* the text between the first two fences
         SplitHead(AfterFirst(text, {FENCE}), {FENCE})
    ELSE text

\* json.loads: exactly one JSON value, nothing else
json_loads(text, obj) ==
    IF text = <<"OBJ">> THEN Ok(obj) ELSE Raise("JSONDecodeError")

\* a JSON value that is not an object has no .get
JsonList == [py_list |-> TRUE]

IsDict(v) == v # None /\ v # JsonList

-----------------------------------------------------------------------------
(* Architect: architect_node.                                              *)

\* the f-string e-{source}-{target}
EdgeId(source, target) == <<"e">> \o source \o target

\* a variant that passes over an edge without source or target
NewEdgesLoop_Skip(edges, new_edges) ==
    LET Complete(e) == "source" \in DOMAIN e /\ "target" \in DOMAIN e
        kept == SelectSeq(edges, Complete)
    IN  Ok(new_edges \o
           [i \in 1..Len(kept) |->
               [id |-> EdgeId(kept[i].source, kept[i].target),
                source |-> kept[i].source,
                target |-> kept[i].target,
                label |-> Get(kept[i], "label", "")]])

\* the loop that builds new_edges; edge["source"] raises KeyError
RECURSIVE NewEdgesLoop(_, _)
NewEdgesLoop(edges, new_edges) ==
    IF edges = <<>> THEN Ok(new_edges)
    ELSE LET edge == Head(edges)
         IN  IF "source" \notin DOMAIN edge \/ "target" \notin DOMAIN edge
             THEN Raise("KeyError")
             ELSE NewEdgesLoop(
                    Tail(edges),
                    Append(new_edges,
                           [id |-> EdgeId(edge.source, edge.target),
                            source |-> edge.source,
                            target |-> edge.target,
                            label |-> Get(edge, "label", "")]))

\* {n["id"] for n in existing}: raises KeyError when an element has no id
IdsOf(existing) == {existing[i].id : i \in DOMAIN existing}

HasIds(existing) == \A i \in DOMAIN existing : "id" \in DOMAIN existing[i]

\* a variant that puts the incoming nodes in front of the existing ones
MergeNodes_IncomingFirst(existing_nodes, positioned_new_nodes) ==
    LET existing_node_ids == IdsOf(existing_nodes)
        NewNode(n) == n.id \notin existing_node_ids
    IN  SelectSeq(positioned_new_nodes, NewNode) \o existing_nodes

\* a variant without the filter on existing ids
MergeNodes_KeepAll(existing_nodes, positioned_new_nodes) ==
    existing_nodes \o positioned_new_nodes

\* existing_nodes + [n for n in positioned if n["id"] not in existing_node_ids]
MergeNodes(existing_nodes, positioned_new_nodes) ==
    LET existing_node_ids == IdsOf(existing_nodes)
        NewNode(n) == n.id \notin existing_node_ids
    IN  existing_nodes \o SelectSeq(positioned_new_nodes, NewNode)

\* existing_edges + [e for e in new_edges if e["id"] not in existing_edge_ids]
MergeEdges(existing_edges, new_edges) ==
    LET existing_edge_ids == IdsOf(existing_edges)
        NewEdge(e) == e.id \notin existing_edge_ids
    IN  existing_edges \o SelectSeq(new_edges, NewEdge)

\* the body of the try block after json.loads: the merged graph, or the
\* exception that leaves the block
MergeDraft(current_graph, result) ==
    IF ~IsDict(result) THEN Raise("AttributeError")
    ELSE
    LET existing_nodes == Get(current_graph, "nodes", <<>>)
        existing_edges == Get(current_graph, "edges", <<>>)
        new_nodes == Get(result, "nodes", <<>>)
        positioned == generate_node_positions(new_nodes, existing_nodes)
        edges == NewEdgesLoop(Get(result, "edges", <<>>), <<>>)
    IN  IF ~HasIds(existing_nodes) THEN Raise("KeyError")
        ELSE IF ~positioned.ok THEN positioned
        ELSE IF ~edges.ok THEN edges
        ELSE IF ~HasIds(existing_edges) THEN Raise("KeyError")
        ELSE Ok([nodes |-> MergeNodes(existing_nodes, positioned.value),
                 edges |-> MergeEdges(existing_edges, edges.value)])

MSG_UPDATED == "I have updated your architecture based on your requirements."
MSG_TROUBLE == "I understood your request but had trouble generating the architecture. Could you try rephrasing it?"
MSG_ERROR == "I encountered an error while designing the architecture. Please try again."
MSG_EMPTY_CANVAS == "Your canvas is empty. Describe what you want to build and I will create an architecture for you."

\* explain_architecture; reply is the reply of the collaborator
explain_architecture(s, reply) ==
    IF Get(s.graph_json, "nodes", <<>>) = <<>>
    THEN With(s, "response", <<MSG_EMPTY_CANVAS>>)
    ELSE IF reply.raises
    THEN With(s, "response", <<"Your architecture has N components">>)
    ELSE With(s, "response", <<"explanation by the collaborator">>)

\* architect_node; reply is the reply of the collaborator
architect_node(s, reply) ==
    IF s.intent = "explain" THEN explain_architecture(s, reply)
    ELSE IF reply.raises THEN With(s, "response", <<MSG_ERROR>>)
    ELSE LET parsed == json_loads(StripFences(reply.text), reply.obj)
         IN  IF ~parsed.ok THEN With(s, "response", <<MSG_TROUBLE>>)
             ELSE LET merged == MergeDraft(s.graph_json, parsed.value)
                  IN  IF ~merged.ok THEN With(s, "response", <<MSG_ERROR>>)
                      ELSE With(With(s, "graph_json", merged.value),
                                "response",
                                <<Get(parsed.value, "explanation", MSG_UPDATED)>>)

-----------------------------------------------------------------------------
(* Static review: SecuritySpecialistAgent.review.                          *)

\* the review returned for a graph without nodes
EmptyReview ==
    [security_score |-> 100,
     passed |-> TRUE,
     critical_issues |-> <<>>,
     warnings |-> <<>>,
     recommendations |-> <<>>,
     compliant_services |-> <<>>,
     security_enhancements |-> [nodes_to_add |-> <<>>, config_changes |-> <<>>]]

\* any(n.get("data", {}).get("type") == "auth" for n in nodes)
has_auth(nodes) == \E i \in DOMAIN nodes : DataType(nodes[i], "") = "auth"

\* a variant that warns about every api node, authenticated or not
NodeWarnings_IgnoreAuth(node, nodes) ==
    LET node_type == DataType(node, "")
    IN  CASE node_type = "storage" ->
                <<[service |-> "S3", severity |-> "medium"]>>
          [] node_type = "api" ->
                <<[service |-> "API Gateway", severity |-> "high"]>>
          [] node_type = "queue" ->
                <<[service |-> "SQS", severity |-> "medium"]>>
          [] OTHER -> <<>>

\* a variant that reports an unprotected bucket as an issue of high severity
NodeWarnings_StorageHigh(node, nodes) ==
    LET node_type == DataType(node, "")
    IN  CASE node_type = "storage" ->
                <<[service |-> "S3", severity |-> "high"]>>
          [] node_type = "api" /\ ~has_auth(nodes) ->
                <<[service |-> "API Gateway", severity |-> "high"]>>
          [] node_type = "queue" ->
                <<[service |-> "SQS", severity |-> "medium"]>>
          [] OTHER -> <<>>

\* what one node appends to warnings
NodeWarnings(node, nodes) ==
    LET node_type == DataType(node, "")
        label == Get(Get(node, "data", EmptyDict), "label", "")
    IN  CASE node_type = "storage" ->
                <<[service |-> "S3",
                   issue |-> <<"Bucket", label, "should have encryption, versioning, and block public access enabled">>,
                   severity |-> "medium",
                   recommendation |-> <<"Add blockPublicAccess: BLOCK_ALL, encryption: S3_MANAGED, versioned: true">>]>>
          [] node_type = "api" /\ ~has_auth(nodes) ->
                <<[service |-> "API Gateway",
                   issue |-> <<"API", label, "has no authentication configured">>,
                   severity |-> "high",
                   recommendation |-> <<"Add Cognito, IAM, or Lambda authorizer for authentication">>]>>
          [] node_type = "queue" ->
                <<[service |-> "SQS",
                   issue |-> <<"Queue", label, "should have encryption enabled for sensitive data">>,
                   severity |-> "medium",
                   recommendation |-> <<"Add encryption: sqs.QueueEncryption.KMS">>]>>
          [] OTHER -> <<>>

\* what one node appends to recommendations
NodeRecommendations(node) ==
    LET node_type == DataType(node, "")
        label == Get(Get(node, "data", EmptyDict), "label", "")
    IN  CASE node_type = "database" ->
                <<[service |-> "DynamoDB",
                   recommendation |-> <<"Enable point-in-time recovery for", label>>]>>
          [] node_type = "lambda" ->
                <<[service |-> "Lambda",
                   recommendation |-> <<"Enable X-Ray tracing on", label>>],
                  [service |-> "Lambda",
                   recommendation |-> <<"Use least-privilege IAM grants for", label>>]>>
          [] node_type = "auth" ->
                <<[service |-> "Cognito",
                   recommendation |-> <<"Consider enabling MFA for", label>>]>>
          [] OTHER -> <<>>

\* what one node appends to config_changes
NodeConfigChanges(node) ==
    LET node_type == DataType(node, "")
        node_id == Get(node, "id", <<>>)
    IN  CASE node_type = "storage" ->
                <<[node_id |-> node_id,
                   changes |-> [blockPublicAccess |-> TRUE,
                                encryption |-> "S3_MANAGED",
                                versioning |-> TRUE]]>>
          [] node_type = "database" ->
                <<[node_id |-> node_id,
                   changes |-> [pointInTimeRecovery |-> TRUE]]>>
          [] node_type = "queue" ->
                <<[node_id |-> node_id,
                   changes |-> [encryption |-> "KMS", deadLetterQueue |-> TRUE]]>>
          [] OTHER -> <<>>

\* the loop "for node in nodes" over nodes[i..]
RECURSIVE ReviewLoop(_, _, _)
ReviewLoop(nodes, i, acc) ==
    IF i > Len(nodes) THEN acc
    ELSE ReviewLoop(nodes, i + 1,
            [warnings |-> acc.warnings \o NodeWarnings(nodes[i], nodes),
             recommendations |-> acc.recommendations \o NodeRecommendations(nodes[i]),
             config_changes |-> acc.config_changes \o NodeConfigChanges(nodes[i])])

\* len([w for w in items if w.get("severity") == severity])
SeverityCount(items, severity) ==
    Cardinality({i \in DOMAIN items : Get(items[i], "severity", "") = severity})

Max(a, b) == IF a >= b THEN a ELSE b
Min(a, b) == IF a <= b THEN a ELSE b

\* a score that is not clamped
ReviewScore_Unclamped(critical_count, high_count, medium_count) ==
    100 - (critical_count * 30) - (high_count * 15) - (medium_count * 5)

\* score = max(0, min(100, 100 - 30*critical - 15*high - 5*medium))
ReviewScore(critical_count, high_count, medium_count) ==
    Max(0, Min(100, 100 - (critical_count * 30) - (high_count * 15)
                        - (medium_count * 5)))

\* a verdict that already fails at three high-severity warnings
ReviewPassed_Below3(critical_count, high_count) ==
    critical_count = 0 /\ high_count < 3

\* passed = critical_count == 0 and high_count <= 3
ReviewPassed(critical_count, high_count) ==
    critical_count = 0 /\ high_count <= 3

review(graph) ==
    LET nodes == Get(graph, "nodes", <<>>)
    IN  IF nodes = <<>> THEN EmptyReview
        ELSE
        LET issues == <<>>
            found == ReviewLoop(nodes, 1,
                        [warnings |-> <<>>, recommendations |-> <<>>,
                         config_changes |-> <<>>])
            critical_count == SeverityCount(issues, "critical")
            high_count == SeverityCount(found.warnings, "high")
            medium_count == SeverityCount(found.warnings, "medium")
            IsCritical(i) == Get(i, "severity", "") = "critical"
        IN  [security_score |-> ReviewScore(critical_count, high_count, medium_count),
             passed |-> ReviewPassed(critical_count, high_count),
             critical_issues |-> SelectSeq(issues, IsCritical),
             warnings |-> found.warnings,
             recommendations |-> found.recommendations,
             compliant_services |-> <<>>,
             security_enhancements |->
                [nodes_to_add |-> <<>>, config_changes |-> found.config_changes]]

-----------------------------------------------------------------------------
(* Security review step and its gate.                                      *)

\* [x.get("service", "Unknown") for x in items[:n]]
FirstServices(items, n) ==
    [i \in 1..Min(Len(items), n) |-> Get(items[i], "service", "Unknown")]

\* the response message built from review_result
ReviewResponse(review_result) ==
    LET score == Get(review_result, "security_score", 0)
        passed == Get(review_result, "passed", FALSE)
        critical == Get(review_result, "critical_issues", <<>>)
        warnings == Get(review_result, "warnings", <<>>)
        recommendations == Get(review_result, "recommendations", <<>>)
    IN  IF passed
        THEN <<"**Security Review: PASSED**", ToString(score)>>
             \o FirstServices(warnings, 3)
             \o FirstServices(recommendations, 3)
             \o <<"Proceeding with code generation...">>
        ELSE <<"**Security Review: FAILED**", ToString(score),
               "Code generation blocked due to security issues:">>
             \o FirstServices(critical, Len(critical))
             \o FirstServices(warnings, 5)
             \o <<"Please address these issues and try again.">>

\* security_review_node; reply is the reply of the collaborator
security_review_node(s, reply) ==
    LET graph == s.graph_json
        nodes == Get(graph, "nodes", <<>>)
        parsed == IF reply.raises THEN Raise("Exception")
                  ELSE json_loads(StripFences(reply.text), reply.obj)
        review_result == IF parsed.ok THEN parsed.value ELSE review(graph)
    IN  IF nodes = <<>>
        THEN Ok(With(With(s, "security_review", EmptyReview),
                     "response", <<"No architecture to review.">>))
        ELSE IF ~IsDict(review_result) THEN Raise("AttributeError")
        ELSE Ok(With(With(s, "security_review", review_result),
                     "response", ReviewResponse(review_result)))

\* a gate that lets every attached review through
security_gate_any_review(s) ==
    LET r == Get(s, "security_review", None)
    IN  IF Truthy(r) THEN "passed" ELSE "failed"

\* security_gate
security_gate(s) ==
    LET r == Get(s, "security_review", None)
    IN  IF Truthy(r) /\ Get(r, "passed", FALSE) THEN "passed" ELSE "failed"

\* a router that sends every intent but explain to code generation
should_generate_code_unless_explain(s) ==
    IF s.intent # "explain" THEN "generate" ELSE "respond"

\* should_generate_code
should_generate_code(s) ==
    IF s.intent = "generate_code" THEN "generate" ELSE "respond"

-----------------------------------------------------------------------------
(* Intent: interpret_intent.  The user input is its sequence of words.     *)

\* str.lower() on the words of the model
Lower(w) ==
    CASE w = "Generate" -> "generate"
      [] w = "DELETE" -> "delete"
      [] w = "Explain" -> "explain"
      [] OTHER -> w

\* "k in w" for a keyword k and a lower-cased word w
WordContains(w, k) ==
    \/ w = k
    \/ <<w, k>> \in {<<"rebuild", "build">>, <<"decode", "code">>,
                     <<"redeploy", "deploy">>, <<"explained", "explain">>}

\* "phrase in user_input" for a keyword phrase of one or more words
Mentions(user_input, phrase) ==
    \E i \in 1..(Len(user_input) - Len(phrase) + 1) :
        \A j \in DOMAIN phrase :
            IF Len(phrase) = 1
            THEN WordContains(Lower(user_input[i + j - 1]), phrase[j])
            ELSE Lower(user_input[i + j - 1]) = phrase[j]

MentionsAny(user_input, phrases) ==
    \E k \in DOMAIN phrases : Mentions(user_input, phrases[k])

\* a variant that tries the explain keywords before the generate ones
KeywordIntent_ExplainFirst(user_input) ==
    IF MentionsAny(user_input, <<<<"explain">>, <<"what", "is">>,
                                 <<"how", "does">>, <<"describe">>>>)
    THEN "explain"
    ELSE IF MentionsAny(user_input, <<<<"generate">>, <<"code">>, <<"deploy">>,
                                      <<"build">>, <<"cdk">>>>)
    THEN "generate_code"
    ELSE IF MentionsAny(user_input, <<<<"remove">>, <<"delete">>,
                                      <<"disconnect">>>>)
    THEN "modify_graph"
    ELSE "new_feature"

\* the keyword fallback of the except branch
KeywordIntent(user_input) ==
    IF MentionsAny(user_input, <<<<"generate">>, <<"code">>, <<"deploy">>,
                                 <<"build">>, <<"cdk">>>>)
    THEN "generate_code"
    ELSE IF MentionsAny(user_input, <<<<"explain">>, <<"what", "is">>,
                                      <<"how", "does">>, <<"describe">>>>)
    THEN "explain"
    ELSE IF MentionsAny(user_input, <<<<"remove">>, <<"delete">>,
                                      <<"disconnect">>>>)
    THEN "modify_graph"
    ELSE "new_feature"

\* str.strip() on a text whose white space is the token " "
RECURSIVE Strip(_)
Strip(text) ==
    IF text = <<>> THEN text
    ELSE IF Head(text) = " " THEN Strip(Tail(text))
    ELSE IF text[Len(text)] = " " THEN Strip(SubSeq(text, 1, Len(text) - 1))
    ELSE text

\* str.lower() on the reply of the intent classifier
LowerReply(text) ==
    [i \in DOMAIN text |->
        CASE text[i] = "Generate_Code" -> "generate_code"
          [] text[i] = "EXPLAIN" -> "explain"
          [] OTHER -> text[i]]

\* intent_map.get(intent_text, "new_feature")
intent_map(intent_text) ==
    IF /\ Len(intent_text) = 1
       /\ intent_text[1] \in {"new_feature", "modify_graph", "generate_code", "explain"}
    THEN intent_text[1]
    ELSE "new_feature"

\* a variant that also writes a message into response
interpret_intent_Announce(s, reply) ==
    With(With(s, "intent", KeywordIntent(s.user_input)),
         "response", <<"classified">>)

\* interpret_intent; reply is the reply of the collaborator
interpret_intent(s, reply) ==
    IF reply.raises
    THEN With(s, "intent", KeywordIntent(s.user_input))
    ELSE With(s, "intent", intent_map(LowerReply(Strip(reply.text))))

-----------------------------------------------------------------------------
(* Code generation: cdk_specialist_node and react_specialist_node.         *)

CDK_PATH == "packages/generated/infrastructure/lib/scaffold-ai-stack.ts"
CFN_PATH == "packages/generated/infrastructure/template.yaml"
TF_PATH == "packages/generated/infrastructure/main.tf"

\* the loop over config_changes: change["node_id"] and change["changes"]
ConfigChangesOk(security_review) ==
    LET changes == Get(Get(security_review, "security_enhancements", EmptyDict),
                       "config_changes", <<>>)
    IN  \A i \in DOMAIN changes :
            {"node_id", "changes"} \subseteq DOMAIN changes[i]

\* cdk_specialist_node; renderer_raises: the selected renderer raised
cdk_specialist_node(s, renderer_raises) ==
    LET nodes == Get(s.graph_json, "nodes", <<>>)
        security_review == Get(s, "security_review", EmptyDict)
        iac_format == Get(s, "iac_format", "cdk")
        file == IF renderer_raises
                THEN [path |-> CDK_PATH, content |-> "generate_secure_cdk_template", format_name |-> "CDK"]
                ELSE IF iac_format = "cloudformation"
                THEN [path |-> CFN_PATH, content |-> "CloudFormationSpecialistAgent", format_name |-> "CloudFormation"]
                ELSE IF iac_format = "terraform"
                THEN [path |-> TF_PATH, content |-> "TerraformSpecialistAgent", format_name |-> "Terraform"]
                ELSE [path |-> CDK_PATH, content |-> "llm", format_name |-> "CDK"]
    IN  IF s.intent # "generate_code" THEN Ok(s)
        ELSE IF nodes = <<>>
        THEN Ok(With(s, "response", <<"No components in your architecture yet.">>))
        ELSE IF security_review = None THEN Raise("AttributeError")
        ELSE IF ~ConfigChangesOk(security_review) THEN Raise("KeyError")
        ELSE Ok(With(With(s, "generated_files",
                          Append(Get(s, "generated_files", <<>>),
                                 [path |-> file.path, content |-> file.content])),
                     "response",
                     Get(s, "response", <<>>)
                        \o <<file.format_name, "Code Generated!", file.path>>))

HasType(nodes, t) == \E i \in DOMAIN nodes : DataType(nodes[i], "") = t

\* ReactSpecialistAgent.generate
ReactFiles(graph) ==
    LET nodes == Get(graph, "nodes", <<>>)
        File(path) == <<[path |-> path, content |-> "ReactSpecialistAgent"]>>
    IN  IF nodes = <<>> \/ ~HasType(nodes, "frontend") THEN <<>>
        ELSE File("packages/generated/web/app/layout.tsx")
             \o File("packages/generated/web/app/page.tsx")
             \o (IF HasType(nodes, "auth")
                 THEN File("packages/generated/web/components/AuthProvider.tsx")
                 ELSE <<>>)
             \o (IF HasType(nodes, "api")
                 THEN File("packages/generated/web/lib/api.ts") ELSE <<>>)
             \o (IF HasType(nodes, "database")
                 THEN File("packages/generated/web/components/DataTable.tsx")
                 ELSE <<>>)
             \o (IF HasType(nodes, "storage")
                 THEN File("packages/generated/web/components/FileUpload.tsx")
                 ELSE <<>>)

\* a variant in which a failure of the renderer discards the files
react_specialist_node_Discard(s, renderer_raises) ==
    IF renderer_raises THEN With(s, "generated_files", <<>>) ELSE s

\* react_specialist_node; renderer_raises: the frontend renderer raised
react_specialist_node(s, renderer_raises) ==
    LET nodes == Get(s.graph_json, "nodes", <<>>)
        react_files == ReactFiles(s.graph_json)
    IN  IF s.intent # "generate_code" THEN s
        ELSE IF nodes = <<>> THEN s
        ELSE IF renderer_raises THEN s
        ELSE IF react_files # <<>>
        THEN With(s, "generated_files",
                  Get(s, "generated_files", <<>>) \o react_files)
        ELSE s

-----------------------------------------------------------------------------
(* Inputs of the model.                                                    *)

ID_A == <<"a">>
ID_AA == <<"a", "a">>
NodeIds == {ID_A, ID_AA}

\* a node as the Architect step stores it
GraphNode(id, node_type, label, x, y) ==
    [id |-> id, type |-> node_type, position |-> [x |-> x, y |-> y],
     data |-> [label |-> label, type |-> node_type, description |-> ""]]

EmptyGraph == [nodes |-> <<>>, edges |-> <<>>]

\* one api node
GraphOne == [nodes |-> <<GraphNode(ID_A, "api", "Old", 690, 50)>>,
             edges |-> <<>>]

\* two nodes joined by an edge that an earlier merge created
GraphMerged ==
    [nodes |-> <<GraphNode(ID_A, "api", "Old", 690, 50),
                 GraphNode(ID_AA, "database", "Old", 1970, 50)>>,
     edges |-> <<[id |-> EdgeId(ID_A, ID_AA), source |-> ID_A,
                  target |-> ID_AA, label |-> "reads"]>>]

\* two nodes joined by an edge drawn in the editor, with the id e1
GraphDrawn ==
    [nodes |-> <<GraphNode(ID_AA, "database", "Old", 250, 100),
                 GraphNode(ID_A, "api", "Old", 400, 250)>>,
     edges |-> <<[id |-> <<"e1">>, source |-> ID_A, target |-> ID_AA]>>]

\* four api nodes without authentication and a lambda node
GraphFourApis ==
    [nodes |-> <<GraphNode(<<"api", "1">>, "api", "Users API", 0, 0),
                 GraphNode(<<"api", "2">>, "api", "Orders API", 0, 0),
                 GraphNode(<<"api", "3">>, "api", "Products API", 0, 0),
                 GraphNode(<<"api", "4">>, "api", "Payments API", 0, 0),
                 GraphNode(<<"lambda", "1">>, "lambda", "Handler", 0, 0)>>,
     edges |-> <<[id |-> <<"e1">>, source |-> <<"api", "1">>,
                  target |-> <<"lambda", "1">>]>>]

\* a frontend, an api and its authentication
GraphFrontend ==
    [nodes |-> <<GraphNode(<<"web">>, "frontend", "Web", 50, 50),
                 GraphNode(ID_A, "api", "Old", 690, 50),
                 GraphNode(<<"auth", "1">>, "auth", "Cognito Auth", 370, 50)>>,
     edges |-> <<>>]

\* the graphs a merge starts from
ExistingGraphs == {EmptyGraph, EmptyDict, GraphOne, GraphMerged, GraphDrawn}

\* the graphs a request of the workflow carries
CallerGraphs == {EmptyGraph, GraphOne, GraphDrawn, GraphFourApis, GraphFrontend}

\* the nodes of a drafting reply: id, type and label may each be absent
DraftNodes ==
    {[id |-> i, type |-> "api", label |-> "New"] : i \in NodeIds}
    \cup {[id |-> i, type |-> "database"] : i \in NodeIds}
    \cup {[type |-> "api", label |-> "New"], [type |-> "database"]}

\* the edges of a drafting reply: source and target may each be absent
DraftEdges ==
    {[source |-> a, target |-> b] : a \in NodeIds, b \in NodeIds}
    \cup {[source |-> a] : a \in NodeIds}
    \cup {[target |-> b] : b \in NodeIds}
    \cup {EmptyDict}

Draft(nodes, edges) ==
    [explanation |-> "Architecture updated.", nodes |-> nodes, edges |-> edges]

\* the JSON values of a drafting reply
Drafts ==
    {Draft(ns, es) : ns \in SeqsUpTo(DraftNodes, MaxIncomingNodes),
                     es \in {<<>>, <<[source |-> ID_A]>>}}
    \cup {Draft(ns, es) : ns \in SeqsUpTo(DraftNodes, 1),
                          es \in SeqsUpTo(DraftEdges, MaxIncomingEdges)}

SmallDrafts ==
    {Draft(<<>>, <<>>),
     Draft(<<[id |-> ID_A, type |-> "api", label |-> "New"],
             [id |-> <<"db">>, type |-> "database", label |-> "Table"]>>,
           <<[source |-> ID_A, target |-> <<"db">>, label |-> "reads"]>>),
     Draft(<<[id |-> <<"db">>, type |-> "database"]>>, <<[source |-> ID_A]>>),
     [nodes |-> <<[id |-> <<"q">>, type |-> "queue"]>>],
     JsonList}

Reply(text, obj) == [raises |-> FALSE, text |-> text, obj |-> obj]

\* the collaborator call raises (unavailable, timeout)
Raises == [raises |-> TRUE, text |-> <<>>, obj |-> None]

\* before any collaborator call
NoReply == [raises |-> FALSE, text |-> <<>>, obj |-> None]

\* texts from which json.loads obtains the value
FencedTexts ==
    {<<FENCE_JSON, "OBJ", FENCE>>,
     <<FENCE, "OBJ", FENCE>>,
     <<"PROSE", FENCE_JSON, "OBJ", FENCE, "PROSE">>,
     <<FENCE_JSON, "OBJ">>}

\* texts on which json.loads fails
MalformedTexts ==
    {<<>>, <<"BAD">>, <<"PROSE", "OBJ">>, <<FENCE_JSON, "BAD", FENCE>>,
     <<FENCE, "OBJ", "PROSE", FENCE>>, <<"OBJ", FENCE, "PROSE", FENCE>>}

\* the replies of the drafting collaborator in MergeSpec
DraftReplies ==
    {Reply(<<"OBJ">>, d) : d \in Drafts}
    \cup {Reply(t, d) : t \in FencedTexts \cup MalformedTexts, d \in SmallDrafts}
    \cup {Raises}

\* the replies of the drafting collaborator in Spec
SmallDraftReplies ==
    {Reply(<<"OBJ">>, d) : d \in SmallDrafts}
    \cup {Reply(<<FENCE_JSON, "OBJ", FENCE>>, Draft(<<>>, <<>>)),
          Reply(<<"BAD">>, Draft(<<>>, <<>>)),
          Raises}

\* the replies of the intent classifier
IntentReplies ==
    {Reply(<<t>>, None) :
        t \in {"new_feature", "modify_graph", "generate_code", "explain"}}
    \cup {Reply(<<" ", "Generate_Code", " ">>, None),
          Reply(<<"the", "intent", "is", "explain">>, None),
          Raises}

\* the reviews the review collaborator may return
LlmReviews ==
    {EmptyDict,
     [security_score |-> 90, passed |-> TRUE, critical_issues |-> <<>>,
      warnings |-> <<>>, recommendations |-> <<>>],
     [security_score |-> 40, passed |-> FALSE,
      critical_issues |-> <<[service |-> "API"]>>,
      warnings |-> <<[service |-> "api-1", severity |-> "high"]>>,
      recommendations |-> <<>>],
     [security_score |-> 55, warnings |-> <<>>],
     [security_score |-> 80, passed |-> TRUE,
      security_enhancements |-> [config_changes |-> <<[node_id |-> ID_A]>>]],
     JsonList}

ReviewReplies ==
    {Reply(<<"OBJ">>, r) : r \in LlmReviews}
    \cup {Reply(<<FENCE_JSON, "OBJ", FENCE>>, EmptyReview),
          Reply(<<"BAD">>, EmptyReview),
          Raises}

UserInputs ==
    {<<"Generate", "the", "code">>,
     <<"explain", "the", "code">>,
     <<"what", "is", "this">>,
     <<"DELETE", "the", "queue">>,
     <<"add", "a", "database">>,
     <<"rebuild", "everything">>,
     <<"describe", "how", "to", "remove", "it">>}

IacFormats == {"cdk", "cloudformation", "terraform"}

\* initial_state of the chat endpoint, with the fields of GraphState
InitialStates ==
    {[user_input |-> u,
      intent |-> "new_feature",
      graph_json |-> g,
      iac_format |-> f,
      security_review |-> None,
      generated_files |-> files,
      errors |-> <<>>,
      retry_count |-> 0,
      skip_security |-> skip,
      response |-> <<>>] :
        u \in UserInputs, g \in CallerGraphs, f \in IacFormats,
        skip \in BOOLEAN,
        files \in {<<>>, <<[path |-> "README.md", content |-> "earlier"]>>}}

-----------------------------------------------------------------------------
(* The workflow of create_workflow: one action per node and per router.    *)

Init ==
    /\ pc = "interpret"
    /\ state \in InitialStates
    /\ entry = state
    /\ llm = NoReply
    /\ request = state

Interpret ==
    /\ pc = "interpret"
    /\ \E reply \in IntentReplies :
        /\ llm' = reply
        /\ state' = interpret_intent(state, reply)
    /\ entry' = state
    /\ pc' = "architect"
    /\ UNCHANGED request

Architect ==
    /\ pc = "architect"
    /\ \E reply \in SmallDraftReplies :
        /\ llm' = reply
        /\ state' = architect_node(state, reply)
    /\ entry' = state
    /\ pc' = "should_generate_code"
    /\ UNCHANGED request

RouteIntent ==
    /\ pc = "should_generate_code"
    /\ pc' = IF should_generate_code(state) = "generate"
             THEN "security_review" ELSE "END"
    /\ UNCHANGED <<state, entry, llm, request>>

SecurityReview ==
    /\ pc = "security_review"
    /\ \E reply \in ReviewReplies :
        LET result == security_review_node(state, reply)
        IN  /\ llm' = reply
            /\ state' = IF result.ok THEN result.value ELSE state
            /\ pc' = IF result.ok THEN "security_gate" ELSE "raised"
    /\ entry' = state
    /\ UNCHANGED request

SecurityGate ==
    /\ pc = "security_gate"
    /\ pc' = IF security_gate(state) = "passed" THEN "cdk_specialist" ELSE "END"
    /\ UNCHANGED <<state, entry, llm, request>>

CdkSpecialist ==
    /\ pc = "cdk_specialist"
    /\ \E renderer_raises \in BOOLEAN :
        LET result == cdk_specialist_node(state, renderer_raises)
        IN  /\ llm' = IF renderer_raises THEN Raises ELSE NoReply
            /\ state' = IF result.ok THEN result.value ELSE state
            /\ pc' = IF result.ok THEN "react_specialist" ELSE "raised"
    /\ entry' = state
    /\ UNCHANGED request

ReactSpecialist ==
    /\ pc = "react_specialist"
    /\ \E renderer_raises \in BOOLEAN :
        /\ llm' = IF renderer_raises THEN Raises ELSE NoReply
        /\ state' = react_specialist_node(state, renderer_raises)
    /\ entry' = state
    /\ pc' = "END"
    /\ UNCHANGED request

Next ==
    \/ Interpret
    \/ Architect
    \/ RouteIntent
    \/ SecurityReview
    \/ SecurityGate
    \/ CdkSpecialist
    \/ ReactSpecialist

Spec == Init /\ [][Next]_vars

-----------------------------------------------------------------------------
(* Architect merges on their own: one call of architect_node on a graph,   *)
(* then a second call that receives the same drafting reply.               *)

MergeStates ==
    {[user_input |-> <<"add", "a", "database">>,
      intent |-> i,
      graph_json |-> g,
      iac_format |-> "cdk",
      security_review |-> None,
      generated_files |-> <<>>,
      errors |-> <<>>,
      retry_count |-> 0,
      skip_security |-> FALSE,
      response |-> <<>>] :
        g \in ExistingGraphs, i \in {"new_feature", "generate_code"}}

MergeInit ==
    /\ pc = "architect"
    /\ state \in MergeStates
    /\ entry = state
    /\ llm = NoReply
    /\ request = state

MergeFirst ==
    /\ pc = "architect"
    /\ \E reply \in DraftReplies :
        /\ llm' = reply
        /\ state' = architect_node(state, reply)
    /\ entry' = state
    /\ pc' = "merged"
    /\ UNCHANGED request

MergeAgain ==
    /\ pc = "merged"
    /\ state' = architect_node(state, llm)
    /\ entry' = state
    /\ pc' = "merged_again"
    /\ UNCHANGED <<llm, request>>

MergeNext == MergeFirst \/ MergeAgain

MergeSpec == MergeInit /\ [][MergeNext]_vars

-----------------------------------------------------------------------------
(* The static review on its own: review applied to a graph.                *)

ReviewTypes == <<"api", "auth", "storage", "queue", "database", "lambda", "cdn">>

RECURSIVE Repeat(_, _)
Repeat(x, n) == IF n = 0 THEN <<>> ELSE <<x>> \o Repeat(x, n - 1)

RECURSIVE TypeBlocks(_, _)
TypeBlocks(count, k) ==
    IF k > Len(ReviewTypes) THEN <<>>
    ELSE Repeat(ReviewTypes[k], count[k]) \o TypeBlocks(count, k + 1)

Reverse(s) == [i \in DOMAIN s |-> s[Len(s) + 1 - i]]

\* the graph with count[k] nodes of type ReviewTypes[k]
ReviewGraph(count, reversed) ==
    LET fwd == TypeBlocks(count, 1)
        types == IF reversed THEN Reverse(fwd) ELSE fwd
    IN  [nodes |-> [i \in DOMAIN types |->
                        GraphNode(<<types[i], ToString(i)>>, types[i],
                                  "Label", 0, 0)],
         edges |-> <<>>]

ReviewCounts ==
    {count \in [DOMAIN ReviewTypes -> 0..Max(MaxApiNodes, MaxOtherNodes)] :
        /\ \A k \in DOMAIN ReviewTypes :
              ReviewTypes[k] # "api" => count[k] <= MaxOtherNodes
        /\ count[1] <= MaxApiNodes
        /\ count[7] <= 1}

\* graphs with ten buckets and ten queues, and from two to four api nodes
HeavyCounts ==
    {[k \in DOMAIN ReviewTypes |->
        CASE ReviewTypes[k] = "api" -> apis
          [] ReviewTypes[k] \in {"storage", "queue"} -> 10
          [] OTHER -> 0] : apis \in 2..4}

ReviewStates ==
    {[user_input |-> <<"Generate", "the", "code">>,
      intent |-> "generate_code",
      graph_json |-> ReviewGraph(count, reversed),
      iac_format |-> "cdk",
      security_review |-> None,
      generated_files |-> <<>>,
      errors |-> <<>>,
      retry_count |-> 0,
      skip_security |-> FALSE,
      response |-> <<>>] :
        count \in ReviewCounts \cup HeavyCounts, reversed \in BOOLEAN}

ReviewInit ==
    /\ pc = "review"
    /\ state \in ReviewStates
    /\ entry = state
    /\ llm = NoReply
    /\ request = state

StaticReview ==
    /\ pc = "review"
    /\ state' = With(state, "security_review", review(state.graph_json))
    /\ entry' = state
    /\ pc' = "reviewed"
    /\ UNCHANGED <<llm, request>>

ReviewNext == StaticReview

ReviewSpec == ReviewInit /\ [][ReviewNext]_vars

-----------------------------------------------------------------------------
(* Properties of the workflow (Spec).                                      *)

\* the review is a dict whose passed field is true
PassedTrue(r) == r # None /\ "passed" \in DOMAIN r /\ r.passed = TRUE

C2_SkipFlagOpensGate ==
    [][(/\ pc = "security_gate"
        /\ state.skip_security
        /\ "passed" \in DOMAIN state.security_review
        /\ state.security_review.passed = FALSE)
            => pc' = "cdk_specialist"]_vars

\* C3: after the Architect step the run goes to the security review exactly
\* when the intent is generate_code; otherwise it ends with no review
\* attached and no file added.
C3_IntentRoute ==
    [][pc = "should_generate_code"
        => /\ (pc' = "security_review") <=> (state.intent = "generate_code")
           /\ state.intent # "generate_code"
                => /\ pc' = "END"
                   /\ state'.security_review = None
                   /\ state'.generated_files = request.generated_files]_vars

\* a run that ended after the Architect step with a changed graph
C3_Witness ==
    /\ pc = "END"
    /\ state.intent = "modify_graph"
    /\ state.graph_json # request.graph_json
    /\ state.security_review = None
    /\ state.generated_files = request.generated_files

-----------------------------------------------------------------------------
(* Properties of the static review (ReviewSpec).                           *)

\* the number of warnings of a severity that a review returns
Reported(r, severity) ==
    Cardinality({i \in DOMAIN r.warnings : r.warnings[i].severity = severity})

\* the number of nodes of a type in a graph
NodesOfType(graph, t) ==
    Cardinality({i \in DOMAIN graph.nodes : graph.nodes[i].data.type = t})

\* C4: the static review passes exactly when it reports no critical issue
\* and at most three high-severity warnings; three unauthenticated api nodes
\* pass and four fail.
C4_PassedThreshold ==
    pc = "reviewed" =>
        LET r == state.security_review
            g == state.graph_json
        IN  /\ r.passed <=> (Len(r.critical_issues) = 0 /\ Reported(r, "high") <= 3)
            /\ (NodesOfType(g, "api") = 3 /\ NodesOfType(g, "auth") = 0)
                    => r.passed
            /\ (NodesOfType(g, "api") = 4 /\ NodesOfType(g, "auth") = 0)
                    => ~r.passed

\* a review of three unauthenticated api nodes: three high warnings, passed
C4_Witness ==
    /\ pc = "reviewed"
    /\ NodesOfType(state.graph_json, "api") = 3
    /\ Reported(state.security_review, "high") = 3
    /\ state.security_review.passed

\* C5: the score is 100 - 30*critical - 15*high - 5*medium over the returned
\* issues and warnings, clamped to 0..100; a graph without nodes scores 100,
\* passes and has no issues or warnings.
C5_ScoreFormula ==
    pc = "reviewed" =>
        LET r == state.security_review
            raw == 100 - 30 * Len(r.critical_issues) - 15 * Reported(r, "high")
                       - 5 * Reported(r, "medium")
        IN  /\ r.security_score =
                    IF raw < 0 THEN 0 ELSE IF raw > 100 THEN 100 ELSE raw
            /\ r.security_score \in 0..100
            /\ state.graph_json.nodes = <<>>
                    => /\ r.security_score = 100
                       /\ r.passed
                       /\ r.critical_issues = <<>>
                       /\ r.warnings = <<>>

\* a review whose deductions exceed 100: the score is clamped to 0
C5_Witness ==
    /\ pc = "reviewed"
    /\ 15 * Reported(state.security_review, "high")
         + 5 * Reported(state.security_review, "medium") > 100
    /\ state.security_review.security_score = 0

-----------------------------------------------------------------------------
(* Properties of the Architect merge, checked under MergeSpec.             *)

\* the last call of architect_node stored a merged graph
MergeSucceeded ==
    /\ pc \in {"merged", "merged_again"}
    /\ state.response \notin {<<MSG_ERROR>>, <<MSG_TROUBLE>>}

\* the k-th smallest element of a finite set of numbers
Kth(S, k) == CHOOSE i \in S : Cardinality({j \in S : j < i}) = k - 1

EntryNodes == Get(entry.graph_json, "nodes", <<>>)
EntryEdges == Get(entry.graph_json, "edges", <<>>)
IncomingNodes == Get(llm.obj, "nodes", <<>>)
IncomingEdges == Get(llm.obj, "edges", <<>>)

\* the positions of the incoming nodes whose id no existing node has
FreshNodes ==
    {i \in DOMAIN IncomingNodes :
        \A j \in DOMAIN EntryNodes : EntryNodes[j].id # IncomingNodes[i].id}

\* C6: after a successful merge the nodes are the existing nodes, first and
\* unchanged, followed by the incoming nodes whose id no existing node has,
\* in the order of the reply; an incoming node with an existing id is gone.
C6_MergeNodes ==
    MergeSucceeded =>
        LET nodes == state.graph_json.nodes
            n == Len(EntryNodes)
        IN  /\ Len(nodes) = n + Cardinality(FreshNodes)
            /\ SubSeq(nodes, 1, n) = EntryNodes
            /\ \A k \in 1..Cardinality(FreshNodes) :
                  LET incoming == IncomingNodes[Kth(FreshNodes, k)]
                  IN  /\ nodes[n + k].id = incoming.id
                      /\ nodes[n + k].type = Get(incoming, "type", "api")
                      /\ nodes[n + k].data.label
                            = Get(incoming, "label", "Component")

\* a merge into the one-node graph of a reply that repeats its id and
\* brings one new id
C6_Witness ==
    /\ MergeSucceeded
    /\ pc = "merged"
    /\ entry.graph_json = GraphOne
    /\ Len(IncomingNodes) = 2
    /\ IncomingNodes[1].id = ID_A
    /\ IncomingNodes[2].id = ID_AA
    /\ Len(state.graph_json.nodes) = 2
    /\ state.graph_json.nodes[1] = GraphOne.nodes[1]
    /\ state.graph_json.nodes[2].id = ID_AA

Distinct(ids) == \A i, j \in DOMAIN ids : ids[i].id = ids[j].id => i = j

\* C7: the node ids of the graph are pairwise distinct after every merge
\* into a graph whose node ids are pairwise distinct, for every reply.
C7_UniqueNodeIds ==
    (MergeSucceeded /\ Distinct(Get(request.graph_json, "nodes", <<>>)))
        => Distinct(state.graph_json.nodes)

\* C8: merging the same reply a second time into the result of the first
\* merge leaves the nodes of that result as they are.
C8_MergeIdempotent ==
    (MergeSucceeded /\ pc = "merged_again")
        => state.graph_json.nodes = EntryNodes

\* the first merge added a node and the second merge of the same reply
\* changed nothing
C8_Witness ==
    /\ MergeSucceeded
    /\ pc = "merged_again"
    /\ Len(EntryNodes) > Len(Get(request.graph_json, "nodes", <<>>))
    /\ Len(Get(request.graph_json, "nodes", <<>>)) > 0
    /\ state.graph_json.nodes = EntryNodes

\* the ids e-{source}-{target} of the edges of a graph
DerivedIds(edges) ==
    {EdgeId(edges[i].source, edges[i].target) : i \in DOMAIN edges}

\* the positions of the incoming edges whose derived id no existing edge has
FreshEdges ==
    {i \in DOMAIN IncomingEdges :
        EdgeId(IncomingEdges[i].source, IncomingEdges[i].target)
            \notin DerivedIds(EntryEdges)}

\* C9: after a successful merge the edges are the existing edges followed
\* by the incoming edges whose derived id e-{source}-{target} is not the
\* derived id of an existing edge, each carrying its derived id.
C9_EdgeMergeByDerivedId ==
    MergeSucceeded =>
        LET edges == state.graph_json.edges
            n == Len(EntryEdges)
        IN  /\ Len(edges) = n + Cardinality(FreshEdges)
            /\ SubSeq(edges, 1, n) = EntryEdges
            /\ \A k \in 1..Cardinality(FreshEdges) :
                  LET incoming == IncomingEdges[Kth(FreshEdges, k)]
                  IN  /\ edges[n + k].id
                            = EdgeId(incoming.source, incoming.target)
                      /\ edges[n + k].source = incoming.source
                      /\ edges[n + k].target = incoming.target

\* a reply that architect_node cannot process: the call raises, the text is
\* not JSON once the fences are removed, a node lacks id, or an edge lacks
\* source or target
Unprocessable(reply) ==
    \/ reply.raises
    \/ reply.text \in MalformedTexts
    \/ /\ IsDict(reply.obj)
       /\ \/ \E i \in DOMAIN Get(reply.obj, "nodes", <<>>) :
                "id" \notin DOMAIN reply.obj.nodes[i]
          \/ \E i \in DOMAIN Get(reply.obj, "edges", <<>>) :
                \/ "source" \notin DOMAIN reply.obj.edges[i]
                \/ "target" \notin DOMAIN reply.obj.edges[i]

SoftMessages == {<<MSG_TROUBLE>>, <<MSG_ERROR>>}

\* C10: on a reply that cannot be processed architect_node returns the state
\* it received with a soft message in response: graph_json and every other
\* field are as on entry, no node or edge of the reply is merged.
C10_AllOrNothing ==
    [][Unprocessable(llm') =>
          /\ state'.graph_json = state.graph_json
          /\ state'.response \in SoftMessages
          /\ state' = With(state, "response", state'.response)]_vars

\* a reply with two identified nodes and an edge without target, on a graph
\* that has nodes: nothing of the reply is in the graph
C10_Witness ==
    /\ pc = "merged"
    /\ ~llm.raises
    /\ llm.text = <<"OBJ">>
    /\ IsDict(llm.obj)
    /\ Len(IncomingNodes) = 2
    /\ \A i \in DOMAIN IncomingNodes : "id" \in DOMAIN IncomingNodes[i]
    /\ IncomingNodes[1].id = ID_AA
    /\ IncomingEdges = <<[source |-> ID_A]>>
    /\ entry.graph_json = GraphOne
    /\ state.graph_json = GraphOne
    /\ state.response = <<MSG_ERROR>>

-----------------------------------------------------------------------------
(* A graph built by Architect merges alone: architect_node is called again *)
(* and again, each time on the graph the call before it returned, starting *)
(* from the empty graph.                                                   *)

\* merges are taken while the graph has fewer nodes than this
MaxLayoutNodes == 3

\* the nodes of the replies: three ids in the api lane, one of them also
\* offered as a database
LayoutNodes ==
    {[id |-> i, type |-> "api", label |-> "New"] :
        i \in {ID_A, ID_AA, <<"db">>}}
    \cup {[id |-> <<"db">>, type |-> "database", label |-> "Table"]}

LayoutReplies ==
    {Reply(<<"OBJ">>, Draft(ns, <<>>)) :
        ns \in SeqsUpTo(LayoutNodes, MaxIncomingNodes)}

LayoutInit ==
    /\ pc = "architect"
    /\ state = [user_input |-> <<"add", "a", "database">>,
                intent |-> "new_feature",
                graph_json |-> EmptyGraph,
                iac_format |-> "cdk",
                security_review |-> None,
                generated_files |-> <<>>,
                errors |-> <<>>,
                retry_count |-> 0,
                skip_security |-> FALSE,
                response |-> <<>>]
    /\ entry = state
    /\ llm = NoReply
    /\ request = state

LayoutMerge ==
    /\ pc = "architect"
    /\ Len(state.graph_json.nodes) < MaxLayoutNodes
    /\ \E reply \in LayoutReplies :
        /\ llm' = reply
        /\ state' = architect_node(state, reply)
    /\ entry' = state
    /\ UNCHANGED <<pc, request>>

LayoutNext == LayoutMerge

LayoutSpec == LayoutInit /\ [][LayoutNext]_vars

\* C11: no two nodes of a graph built by merges from the empty graph lie at
\* the same (x, y) position of a lane.
C11_LayoutNonOverlap ==
    \A i, j \in DOMAIN state.graph_json.nodes :
        state.graph_json.nodes[i].position = state.graph_json.nodes[j].position
            => i = j

-----------------------------------------------------------------------------
(* The type resolver of the autofix service: _resolve_type.  An id is its  *)
(* sequence of dash-separated pieces and a label is one string; a config   *)
(* value is the token of its Python value ("True", "KMS", "None").         *)

\* _TYPE_HINTS
_TYPE_HINTS ==
    [queue |-> {"queue", "sqs", "fifo"},
     dlq |-> {"dlq", "dead-letter", "deadletter", "dead_letter"},
     storage |-> {"bucket", "s3", "storage"},
     database |-> {"db", "database", "dynamo", "table", "rds", "aurora"},
     lambda |-> {"lambda", "function", "fn", "handler", "processor",
                 "detector", "athena"},
     api |-> {"api", "gateway", "apigw", "rest", "http"},
     auth |-> {"auth", "cognito", "identity", "login"},
     cdn |-> {"cdn", "cloudfront", "distribution"},
     sns |-> {"sns", "topic", "notification", "alert"},
     events |-> {"eventbridge", "event-bus", "events", "eventbus"},
     glue |-> {"glue", "catalog", "etl", "crawler"},
     stream |-> {"kinesis", "stream", "firehose"}]

\* the keys of _TYPE_HINTS in insertion order, without lambda and dlq
HintOrder ==
    <<"queue", "storage", "database", "api", "auth", "cdn", "sns", "events",
      "glue", "stream">>

known_types ==
    {"queue", "storage", "database", "lambda", "api", "auth", "cdn", "sns",
     "events", "glue", "stream", "notification", "frontend"}

\* the keywords k with "k in w.lower()" for a piece or a label w
KeywordsIn(w) ==
    CASE w \in {"api", "Users API", "REST API"} ->
            IF w = "REST API" THEN {"api", "rest"} ELSE {"api"}
      [] w \in {"db", "DB"} -> {"db"}
      [] w \in {"table", "Table", "Users Table"} -> {"table"}
      [] w \in {"auth", "Authorizer"} -> {"auth"}
      [] w = "Cognito Auth" -> {"cognito", "auth"}
      [] w = "lambda" -> {"lambda"}
      [] w \in {"Handler", "handler"} -> {"handler"}
      [] w = "processor" -> {"processor"}
      [] w = "dlq" -> {"dlq"}
      [] w \in {"queue", "Queue"} -> {"queue"}
      [] w \in {"bucket", "Bucket"} -> {"bucket"}
      [] w = "topic" -> {"topic"}
      [] w = "Alert Function" -> {"alert", "function"}
      [] OTHER -> {}

\* the keywords with a dash when two pieces of the id spell them
DashKeywords(node_id) ==
    {k \in {"dead-letter", "event-bus"} :
        \E i \in 1..(Len(node_id) - 1) :
            \/ k = "dead-letter" /\ node_id[i] = "dead" /\ node_id[i + 1] = "letter"
            \/ k = "event-bus" /\ node_id[i] = "event" /\ node_id[i + 1] = "bus"}

\* the keywords found in combined, the lower-cased id and label
CombinedKeywords(node) ==
    LET node_id == Get(node, "id", <<>>)
        label == Get(Get(node, "data", EmptyDict), "label", "")
    IN  UNION {KeywordsIn(node_id[i]) : i \in DOMAIN node_id}
        \cup DashKeywords(node_id)
        \cup KeywordsIn(label)

\* a variant that tries the dead-letter keywords before the lambda ones
_resolve_type_QueueFirst(node) ==
    LET data_type == DataType(node, "")
        found == CombinedKeywords(node)
        Hit(t) == found \cap _TYPE_HINTS[t] # {}
        hits == {i \in DOMAIN HintOrder : Hit(HintOrder[i])}
    IN  IF data_type \in known_types THEN data_type
        ELSE IF Hit("dlq") THEN "queue"
        ELSE IF Hit("lambda") THEN "lambda"
        ELSE IF hits # {}
        THEN HintOrder[CHOOSE i \in hits : \A j \in hits : i <= j]
        ELSE IF data_type # "" THEN data_type ELSE "unknown"

_resolve_type(node) ==
    LET data_type == DataType(node, "")
        found == CombinedKeywords(node)
        Hit(t) == found \cap _TYPE_HINTS[t] # {}
        hits == {i \in DOMAIN HintOrder : Hit(HintOrder[i])}
    IN  IF data_type \in known_types THEN data_type
        ELSE IF Hit("lambda") THEN "lambda"
        ELSE IF Hit("dlq") THEN "queue"
        ELSE IF hits # {}
        THEN HintOrder[CHOOSE i \in hits : \A j \in hits : i <= j]
        ELSE IF data_type # "" THEN data_type ELSE "unknown"

-----------------------------------------------------------------------------
(* The autofix service: SecurityAutoFix.analyze_and_fix.                   *)

\* config.get(key) as a token; "None" when the key is absent
ConfigGet(config, key) == Get(config, key, "None")

\* not value
Falsy(value) == value \in {"None", "False", ""}

\* {**config, **settings}
Update(config, settings) ==
    [k \in DOMAIN config \cup DOMAIN settings |->
        IF k \in DOMAIN settings THEN settings[k] ELSE config[k]]

\* one "if <test on config[key]>: <settings>; changes.append(<message>)"
Rule(key, test, settings, message) ==
    [key |-> key, test |-> test, settings |-> settings, message |-> message]

\* a variant in which every rule applies whatever the config holds
Fires_Unchecked(test, value) == TRUE

\* the tests of the rules on the value of the key
Fires(test, value) ==
    CASE test = "not" -> Falsy(value)
      [] test = "weak_encryption" -> value \in {"None", "AES256", "SSE-S3"}
      [] test = "open_cors" -> value \in {"None", "*", "ALL_ORIGINS"}
      [] test = "not_required" -> value # "REQUIRED"

\* the rules of the branch for resolved type t, in the order of the code
Rules(t) ==
    CASE t = "storage" ->
            <<Rule("encryption", "weak_encryption",
                   [encryption |-> "KMS", kms_key_rotation |-> "True"],
                   "Upgraded S3 to KMS encryption with key rotation"),
              Rule("block_public_access", "not",
                   [block_public_access |-> "True"],
                   "Enabled Block Public Access on S3"),
              Rule("versioning", "not", [versioning |-> "True"],
                   "Enabled versioning on S3"),
              Rule("https_only", "not", [https_only |-> "True"],
                   "Enforced HTTPS-only access on S3")>>
      [] t = "database" ->
            <<Rule("encryption", "not",
                   [encryption |-> "KMS", kms_encryption |-> "True"],
                   "Enabled KMS encryption for DynamoDB"),
              Rule("pitr", "not", [pitr |-> "True"],
                   "Enabled Point-in-Time Recovery for DynamoDB")>>
      [] t = "lambda" ->
            <<Rule("vpc_enabled", "not",
                   [vpc_enabled |-> "True", vpc_subnets |-> "private"],
                   "Added VPC configuration for Lambda"),
              Rule("tracing", "not", [tracing |-> "Active"],
                   "Enabled X-Ray tracing for Lambda")>>
      [] t = "api" ->
            <<Rule("cors_origins", "open_cors",
                   [cors_origins |-> "cloudfront-only"],
                   "Restricted CORS to CloudFront domain on API Gateway"),
              Rule("waf_enabled", "not", [waf_enabled |-> "True"],
                   "Attached WAF WebACL to API Gateway"),
              Rule("throttling", "not", [throttling |-> "True"],
                   "Enabled throttling on API Gateway"),
              Rule("access_logging", "not", [access_logging |-> "True"],
                   "Enabled access logging on API Gateway")>>
      [] t = "queue" ->
            <<Rule("has_dlq", "not", [has_dlq |-> "True"],
                   "Enabled DLQ for queue"),
              Rule("encryption", "not", [encryption |-> "KMS"],
                   "Enabled KMS encryption for SQS queue")>>
      [] t = "sns" ->
            <<Rule("encryption", "not", [encryption |-> "KMS"],
                   "Enabled KMS encryption for SNS topic"),
              Rule("access_policy", "not", [access_policy |-> "restricted"],
                   "Added restricted access policy for SNS topic")>>
      [] t = "cdn" ->
            <<Rule("security_headers", "not",
                   [security_headers |-> "True",
                    security_headers_policy |-> "CORS-and-SecurityHeadersPolicy"],
                   "Added security headers to CloudFront"),
              Rule("waf_enabled", "not", [waf_enabled |-> "True"],
                   "Attached WAF to CloudFront")>>
      [] t = "auth" ->
            <<Rule("mfa", "not_required",
                   [mfa |-> "REQUIRED", advanced_security |-> "ENFORCED"],
                   "Enforced MFA and advanced security on Cognito")>>
      [] t = "glue" ->
            <<Rule("encryption", "not", [encryption |-> "True"],
                   "Enabled encryption for Glue Data Catalog"),
              Rule("access_control", "not", [access_control |-> "restricted"],
                   "Added resource-based access policy for Glue")>>
      [] t = "events" ->
            <<Rule("resource_policy", "not", [resource_policy |-> "restricted"],
                   "Added resource policy for EventBridge")>>
      [] OTHER -> <<>>

\* the rules of one branch applied in order to config; label is spliced
\* into every message
RECURSIVE ApplyRules(_, _, _, _)
ApplyRules(rules, config, label, changes) ==
    IF rules = <<>> THEN [config |-> config, changes |-> changes]
    ELSE LET rule == Head(rules)
         IN  IF Fires(rule.test, ConfigGet(config, rule.key))
             THEN ApplyRules(Tail(rules), Update(config, rule.settings), label,
                             Append(changes, <<rule.message>> \o label))
             ELSE ApplyRules(Tail(rules), config, label, changes)

\* the body of "for node in nodes": the node after it, and its changes
FixNode(node) ==
    LET t == _resolve_type(node)
        data == Get(node, "data", EmptyDict)
        config == Get(data, "config", EmptyDict)
        label == IF "label" \in DOMAIN data THEN <<data.label>>
                 ELSE Get(node, "id", <<"unknown">>)
        fixed == ApplyRules(Rules(t), config, label, <<>>)
    IN  [node |-> With(node, "data", With(data, "config", fixed.config)),
         changes |-> fixed.changes]

\* the id auth-{len(nodes) + 1}
AuthNodeId(nodes) == <<"auth", ToString(Len(nodes) + 1)>>

\* _add_auth_node; api["id"] raises KeyError
_add_auth_node(nodes, edges) ==
    LET auth_node ==
            [id |-> AuthNodeId(nodes),
             type |-> "auth",
             position |-> [x |-> 50, y |-> 50],
             data |-> [type |-> "auth",
                       label |-> "Cognito Auth",
                       config |-> [mfa |-> "OPTIONAL",
                                   password_policy |-> "STRONG"]]]
        IsApi(n) == DataType(n, "") = "api"
        api_nodes == SelectSeq(nodes, IsApi)
    IN  IF \E i \in DOMAIN api_nodes : "id" \notin DOMAIN api_nodes[i]
        THEN Raise("KeyError")
        ELSE Ok([auth_node |-> auth_node,
                 new_edges |->
                    [i \in DOMAIN api_nodes |->
                        [id |-> EdgeId(auth_node.id, api_nodes[i].id),
                         source |-> auth_node.id,
                         target |-> api_nodes[i].id,
                         label |-> "authenticates"]]])

MSG_ADDED_AUTH == "Added Cognito user pool for API authentication"

\* analyze_and_fix: the returned graph and change log, or the exception
analyze_and_fix(graph) ==
    LET nodes == Get(graph, "nodes", <<>>)
        edges == Get(graph, "edges", <<>>)
        resolved_auth == \E i \in DOMAIN nodes : _resolve_type(nodes[i]) = "auth"
        resolved_api == \E i \in DOMAIN nodes : _resolve_type(nodes[i]) = "api"
        add == resolved_api /\ ~resolved_auth
        added == _add_auth_node(nodes, edges)
        nodes1 == IF add THEN Append(nodes, added.value.auth_node) ELSE nodes
        edges1 == IF add THEN edges \o added.value.new_edges ELSE edges
        changes1 == IF add THEN <<<<MSG_ADDED_AUTH>>>> ELSE <<>>
        fixed == [i \in DOMAIN nodes1 |-> FixNode(nodes1[i])]
        Log[i \in 0..Len(nodes1)] ==
            IF i = 0 THEN changes1 ELSE Log[i - 1] \o fixed[i].changes
    IN  IF nodes = <<>> THEN Ok([graph |-> graph, changes |-> <<>>])
        ELSE IF add /\ ~added.ok THEN added
        ELSE Ok([graph |-> [nodes |-> [i \in DOMAIN nodes1 |-> fixed[i].node],
                            edges |-> edges1],
                 changes |-> Log[Len(nodes1)]])

-----------------------------------------------------------------------------
(* The compliance rubric of the autofix service: get_security_score.       *)

\* n.get("data", {}).get("config", {})
Config(node) == Get(Get(node, "data", EmptyDict), "config", EmptyDict)

\* the nodes of the list whose resolved type is in types
OfTypes(nodes, types) ==
    {i \in DOMAIN nodes : _resolve_type(nodes[i]) \in types}

\* a variant that gives a category without applicable nodes nothing
Points_NoVacuous(passing, applicable, weight) ==
    IF applicable = 0 THEN 0 ELSE (passing * weight) \div applicable

\* "if applicable: score += int((passing / len(applicable)) * weight)
\*  else: score += weight"; the float product truncates to this quotient
\* for every list of up to seven nodes
Points(passing, applicable, weight) ==
    IF applicable = 0 THEN weight ELSE (passing * weight) \div applicable

\* int((score / max_score) * 100) if max_score > 0 else 0; the float
\* product of 0.29, 0.57 and 0.58 with 100 lies just below the integer
Percentage(score, max_score) ==
    IF max_score = 0 THEN 0
    ELSE IF max_score = 100 /\ score \in {29, 57, 58} THEN score - 1
    ELSE (score * 100) \div max_score

get_security_score(graph) ==
    LET nodes == Get(graph, "nodes", <<>>)
        Passing(S, key) ==
            Cardinality({i \in S : ~Falsy(ConfigGet(Config(nodes[i]), key))})
        found_auth == OfTypes(nodes, {"auth"}) # {}
        found_api == OfTypes(nodes, {"api"}) # {}
        storage_db == OfTypes(nodes, {"storage", "database"})
        kms == Cardinality({i \in storage_db :
                    ConfigGet(Config(nodes[i]), "encryption") \in {"True", "KMS"}})
        storage_nodes == OfTypes(nodes, {"storage"})
        lambda_nodes == OfTypes(nodes, {"lambda"})
        queue_nodes == OfTypes(nodes, {"queue"})
        api_nodes == OfTypes(nodes, {"api"})
        db_nodes == OfTypes(nodes, {"database"})
        score ==
            (IF found_api /\ found_auth THEN 20
             ELSE IF ~found_api THEN 20 ELSE 0)
            + Points(kms, Cardinality(storage_db), 20)
            + Points(Passing(storage_nodes, "block_public_access"),
                     Cardinality(storage_nodes), 15)
            + Points(Passing(lambda_nodes, "vpc_enabled"),
                     Cardinality(lambda_nodes), 15)
            + Points(Passing(queue_nodes, "has_dlq"),
                     Cardinality(queue_nodes), 10)
            + Points(Passing(api_nodes, "waf_enabled"),
                     Cardinality(api_nodes), 10)
            + Points(Passing(db_nodes, "pitr"), Cardinality(db_nodes), 10)
        max_score == 20 + 20 + 15 + 15 + 10 + 10 + 10
    IN  IF nodes = <<>> THEN [score |-> 0, max_score |-> 0, percentage |-> 0]
        ELSE [score |-> score, max_score |-> max_score,
              percentage |-> Percentage(score, max_score)]

-----------------------------------------------------------------------------
(* The autofix endpoint on its own: analyze_and_fix applied to a graph,    *)
(* then applied again to the graph it returned.                            *)

\* graphs of the autofix runs have at most this many nodes
MaxFixNodes == 2

\* a node as the editor sends it: id and data
EditorNode(id, data) == [id |-> id, data |-> data]

\* nodes whose data.type is a known type, with no config yet
TypedFixNodes ==
    {EditorNode(<<t, "1">>, [type |-> t, label |-> "Thing"]) :
        t \in {"api", "database", "lambda", "queue", "sns", "cdn", "glue",
               "events", "frontend", "notification"}}

\* the other nodes: partly configured, typed by keyword only, untyped
FixNodes ==
    TypedFixNodes
    \cup {EditorNode(<<"api", "2">>,
                   [type |-> "api", label |-> "Users API",
                    config |-> [cors_origins |-> "*", waf_enabled |-> "True"]]),
          EditorNode(<<"gw">>, [label |-> "REST API"]),
          EditorNode(<<"bucket", "1">>,
                   [type |-> "storage", label |-> "Bucket",
                    config |-> [encryption |-> "AES256",
                                versioning |-> "False"]]),
          [id |-> <<"db", "1">>],
          EditorNode(<<"auth", "1">>,
                   [type |-> "auth", label |-> "Cognito Auth",
                    config |-> [mfa |-> "REQUIRED"]]),
          EditorNode(<<"auth", "3">>, [type |-> "lambda", label |-> "Authorizer"]),
          EditorNode(<<"dlq", "processor", "lambda">>,
                   [type |-> "generic", label |-> "Handler"]),
          EditorNode(<<"x">>, [type |-> "custom", label |-> "Thing"]),
          [data |-> [type |-> "api", label |-> "Users API"]]}

FixGraphs ==
    {[nodes |-> ns, edges |-> <<>>] : ns \in SeqsUpTo(FixNodes, MaxFixNodes)}

AutofixInit ==
    /\ pc = "autofix"
    /\ state \in {[graph |-> g, changes |-> <<>>] : g \in FixGraphs}
    /\ entry = state
    /\ llm = NoReply
    /\ request = state

\* security_autofix_endpoint: a raise becomes the HTTP 500 answer
Autofix(from, to) ==
    /\ pc = from
    /\ LET result == analyze_and_fix(state.graph)
       IN  IF result.ok
           THEN /\ state' = With(result.value, "security_score",
                                 get_security_score(result.value.graph))
                /\ pc' = to
           ELSE /\ state' = state
                /\ pc' = "raised"
    /\ entry' = state
    /\ UNCHANGED <<llm, request>>

AutofixFirst == Autofix("autofix", "fixed")

\* the client sends the returned graph back
AutofixAgain == Autofix("fixed", "fixed_again")

AutofixNext == AutofixFirst \/ AutofixAgain

AutofixSpec == AutofixInit /\ [][AutofixNext]_vars

-----------------------------------------------------------------------------
(* Properties of the autofix service, checked under AutofixSpec.           *)

\* C12: a second analyze_and_fix, on the graph the first one returned,
\* returns an empty change log and that graph unchanged.
C12_AutofixIdempotent ==
    pc = "fixed_again" => /\ state.changes = <<>>
                          /\ state.graph = entry.graph

\* the first run synthesized an auth node and hardened an S3 bucket, the
\* second run changed nothing
C12_Witness ==
    /\ pc = "fixed_again"
    /\ Len(request.graph.nodes) = 2
    /\ \E i \in DOMAIN request.graph.nodes :
            _resolve_type(request.graph.nodes[i]) = "storage"
    /\ Len(state.graph.nodes) = 3
    /\ Len(entry.changes) > 4
    /\ state.changes = <<>>
    /\ state.graph = entry.graph

FixedFrom == Get(entry.graph, "nodes", <<>>)
FixedNodes == Get(state.graph, "nodes", <<>>)
FixedEdges == Get(state.graph, "edges", <<>>)

\* the positions of the nodes of the input that resolve to t
Resolving(t) == {i \in DOMAIN FixedFrom : _resolve_type(FixedFrom[i]) = t}

\* C13: with a node that resolves to api and none that resolves to auth,
\* analyze_and_fix adds one auth node and one edge labelled authenticates
\* from it to every node that resolves to api; otherwise it adds no node
\* and no edge.
C13_AuthSynthesis ==
    pc = "fixed" =>
        LET n == Len(FixedFrom)
            added == SubSeq(FixedEdges, Len(Get(entry.graph, "edges", <<>>)) + 1,
                            Len(FixedEdges))
        IN  IF Resolving("api") # {} /\ Resolving("auth") = {}
            THEN /\ Len(FixedNodes) = n + 1
                 /\ _resolve_type(FixedNodes[n + 1]) = "auth"
                 /\ Len(added) = Cardinality(Resolving("api"))
                 /\ \A k \in DOMAIN added :
                       /\ added[k].source = FixedNodes[n + 1].id
                       /\ added[k].target = FixedFrom[Kth(Resolving("api"), k)].id
                       /\ added[k].label = "authenticates"
            ELSE /\ Len(FixedNodes) = n
                 /\ added = <<>>

\* C14: the node ids of a graph with pairwise distinct node ids are
\* pairwise distinct after analyze_and_fix.
C14_AuthIdFresh ==
    (/\ pc = "fixed"
     /\ HasIds(FixedFrom)
     /\ Distinct(FixedFrom))
        => (HasIds(FixedNodes) /\ Distinct(FixedNodes))

\* node_type of the review loop: data.type, or the empty string
ReviewType(node) == DataType(node, "")

\* C15: every node is classified by the review, through node_type, as the
\* autofix classifies it through the resolver.
C15_SameClassification ==
    pc = "fixed" =>
        \A i \in DOMAIN FixedFrom :
            ReviewType(FixedFrom[i]) = _resolve_type(FixedFrom[i])

-----------------------------------------------------------------------------
(* Properties of the order of the workflow (Spec).                         *)

\* the place of a step in the order of the workflow; END is last
Rank(step) ==
    CASE step = "interpret" -> 1
      [] step = "architect" -> 2
      [] step = "should_generate_code" -> 3
      [] step = "security_review" -> 4
      [] step = "security_gate" -> 5
      [] step = "cdk_specialist" -> 6
      [] step = "react_specialist" -> 7
      [] step = "END" -> 8

\* C16: every step of a run leads to a later step of the order Interpret,
\* Architect, SecurityReview, CodeGen, END, so no step is entered twice and
\* the run ends in END: no step leaves the workflow without reaching END.
C16_LinearToDone ==
    [][/\ pc' \in {"architect", "should_generate_code", "security_review",
                   "security_gate", "cdk_specialist", "react_specialist",
                   "END"}
       /\ Rank(pc') > Rank(pc)]_vars

\* the fields a step of the workflow computes
Computes(step) ==
    CASE step = "interpret" -> {"intent"}
      [] step = "architect" -> {"graph_json", "response"}
      [] step = "security_review" -> {"security_review", "response"}
      [] step \in {"cdk_specialist", "react_specialist"} ->
            {"generated_files", "response"}
      [] OTHER -> {}

\* C17: the state a step returns has every field of the state it received,
\* and differs from it only in fields the step computes.
C17_Frame ==
    [][/\ DOMAIN state \subseteq DOMAIN state'
       /\ {f \in DOMAIN state : state'[f] # state[f]} \subseteq Computes(pc)]_vars

\* code generation has added a file to the files the request carried, after
\* a merge and a review in the same run, and nothing else has moved
C17_Witness ==
    /\ pc = "react_specialist"
    /\ request.generated_files # <<>>
    /\ Len(state.generated_files) = Len(entry.generated_files) + 1
    /\ state.response # entry.response
    /\ state.graph_json # request.graph_json
    /\ state.security_review # None
    /\ \A f \in DOMAIN entry \ {"generated_files", "response"} :
            state[f] = entry[f]

\* the file the fallback template produces
FallbackFile == [path |-> CDK_PATH, content |-> "generate_secure_cdk_template"]

\* C18: when the infrastructure renderer raises on a graph with nodes,
\* cdk_specialist_node appends the one file of the fallback template and
\* the run goes on to the frontend renderer; when the frontend renderer
\* raises, the state stays as it is and the run ends in END.
C18_RendererFailureContained ==
    [][/\ (/\ pc = "cdk_specialist"
           /\ llm' = Raises
           /\ Get(state.graph_json, "nodes", <<>>) # <<>>
           /\ ConfigChangesOk(state.security_review))
          => /\ pc' = "react_specialist"
             /\ state'.generated_files
                    = Append(state.generated_files, FallbackFile)
       /\ (pc = "react_specialist" /\ llm' = Raises)
          => /\ pc' = "END"
             /\ state' = state]_vars

\* a terraform run in which both renderers raised: the fallback file is the
\* only file added and the run is at END
C18_Witness ==
    /\ pc = "END"
    /\ llm = Raises
    /\ state.iac_format = "terraform"
    /\ state.intent = "generate_code"
    /\ HasType(state.graph_json.nodes, "frontend")
    /\ state.generated_files = Append(request.generated_files, FallbackFile)

-----------------------------------------------------------------------------
(* The chat endpoint: the workflow runs under asyncio.wait_for with a      *)
(* timeout of 60 s.  When a collaborator call outlasts it the run is       *)
(* cancelled where it waits and chat raises HTTP 504.                      *)

\* the collaborator call did not return within the timeout
TimedOut == [raises |-> TRUE, text |-> <<"TimeoutError">>, obj |-> None]

\* the steps that wait for a collaborator
AwaitingSteps == {"interpret", "architect", "security_review", "cdk_specialist"}

\* except asyncio.TimeoutError: raise HTTPException(status_code=504)
Timeout ==
    /\ pc \in AwaitingSteps
    /\ llm' = TimedOut
    /\ pc' = "HTTP_504"
    /\ entry' = state
    /\ UNCHANGED <<state, request>>

ChatNext == Next \/ Timeout

ChatSpec == Init /\ [][ChatNext]_vars

\* C19: when a collaborator call exceeds the timeout the request does not
\* fail: the run goes on, and a timeout of the intent call leaves the intent
\* of the keyword classification.
C19_TimeoutFallsBack ==
    [][llm' = TimedOut =>
          /\ pc' # "HTTP_504"
          /\ pc = "interpret" =>
                state'.intent = KeywordIntent(state.user_input)]_vars

-----------------------------------------------------------------------------
(* The stack splitter: StackSplitter.split_by_layer.                       *)

\* the keys of stacks in insertion order
StackOrder == <<"network", "data", "compute", "frontend">>

\* a classification without the default branch
stack_of_NoDefault(node_type) ==
    CASE node_type \in {"vpc", "subnet", "security-group"} -> "network"
      [] node_type \in {"database", "storage", "cache"} -> "data"
      [] node_type \in {"lambda", "ecs", "batch"} -> "compute"
      [] node_type \in {"frontend", "cdn", "api", "auth"} -> "frontend"
      [] OTHER -> "none"

\* the if/elif chain over node_type
stack_of(node_type) ==
    CASE node_type \in {"vpc", "subnet", "security-group"} -> "network"
      [] node_type \in {"database", "storage", "cache"} -> "data"
      [] node_type \in {"lambda", "ecs", "batch"} -> "compute"
      [] node_type \in {"frontend", "cdn", "api", "auth"} -> "frontend"
      [] OTHER -> "compute"

\* stacks[name]["nodes"] after the loop over nodes
StackNodes(nodes, name) ==
    LET InStack(node) == stack_of(DataType(node, "")) = name
    IN  SelectSeq(nodes, InStack)

\* _find_node_stack: the first stack with a node of this id, or ""
_find_node_stack(node_id, nodes) ==
    LET Holds(name) ==
            \E i \in DOMAIN StackNodes(nodes, name) :
                /\ "id" \in DOMAIN StackNodes(nodes, name)[i]
                /\ StackNodes(nodes, name)[i].id = node_id
        found == {k \in DOMAIN StackOrder : Holds(StackOrder[k])}
    IN  IF found = {} THEN ""
        ELSE StackOrder[CHOOSE k \in found : \A j \in found : k <= j]

\* a variant that gives an edge to the stack of its source only
StackEdges_SourceOnly(nodes, edges, name) ==
    LET InStack(edge) ==
            _find_node_stack(Get(edge, "source", <<>>), nodes) = name
    IN  SelectSeq(edges, InStack)

\* stacks[name]["edges"] after the loop over edges
StackEdges(nodes, edges, name) ==
    LET source_stack(edge) == _find_node_stack(Get(edge, "source", <<>>), nodes)
        target_stack(edge) == _find_node_stack(Get(edge, "target", <<>>), nodes)
        InStack(edge) ==
            \/ source_stack(edge) = name
            \/ target_stack(edge) = name /\ target_stack(edge) # source_stack(edge)
    IN  SelectSeq(edges, InStack)

\* split_by_layer: the stacks that received a node
split_by_layer(nodes, edges) ==
    LET kept == {name \in Range(StackOrder) : StackNodes(nodes, name) # <<>>}
    IN  [name \in kept |-> [nodes |-> StackNodes(nodes, name),
                            edges |-> StackEdges(nodes, edges, name)]]

-----------------------------------------------------------------------------
(* The splitter on its own: split_by_layer applied to nodes and edges.     *)

\* the edge lists of the splitter runs have at most this many edges
MaxSplitEdges == 1

\* the nodes a split may receive; the input is a selection of them
SplitNodes ==
    <<EditorNode(<<"net">>, [type |-> "vpc"]),
      EditorNode(<<"db">>, [type |-> "database"]),
      EditorNode(<<"fn">>, [type |-> "lambda"]),
      EditorNode(<<"api">>, [type |-> "api"]),
      EditorNode(<<"q">>, [type |-> "queue"]),
      [id |-> <<"bare">>],
      EditorNode(<<"net">>, [type |-> "storage"]),
      EditorNode(<<"fn">>, [type |-> "lambda"])>>

\* the elements of list at the positions in S, in order
Pick(list, S) ==
    LET F[i \in 0..Len(list)] ==
            IF i = 0 THEN <<>>
            ELSE IF i \in S THEN Append(F[i - 1], list[i]) ELSE F[i - 1]
    IN  F[Len(list)]

SplitNodeLists ==
    {Pick(SplitNodes, S) : S \in SUBSET DOMAIN SplitNodes}
    \cup {Reverse(Pick(SplitNodes, S)) : S \in SUBSET DOMAIN SplitNodes}

SplitEdges ==
    {[source |-> <<"fn">>, target |-> <<"db">>],
     [source |-> <<"api">>, target |-> <<"fn">>],
     [source |-> <<"net">>, target |-> <<"gone">>],
     [source |-> <<"q">>],
     EmptyDict}

SplitInit ==
    /\ pc = "split"
    /\ state \in {[nodes |-> ns, edges |-> es, stacks |-> EmptyDict] :
                    ns \in SplitNodeLists,
                    es \in SeqsUpTo(SplitEdges, MaxSplitEdges)}
    /\ entry = state
    /\ llm = NoReply
    /\ request = state

SplitByLayer ==
    /\ pc = "split"
    /\ state' = With(state, "stacks", split_by_layer(state.nodes, state.edges))
    /\ entry' = state
    /\ pc' = "split_done"
    /\ UNCHANGED <<llm, request>>

SplitNext == SplitByLayer

SplitSpec == SplitInit /\ [][SplitNext]_vars

\* how often node occurs in list
Occurrences(node, list) == Cardinality({i \in DOMAIN list : list[i] = node})

\* how often node occurs in the node list of a returned layer
InLayer(node, name) ==
    IF name \in DOMAIN state.stacks
    THEN Occurrences(node, state.stacks[name].nodes) ELSE 0

\* C20: the returned layers are among network, data, compute and frontend,
\* none is empty, every input node is in exactly one of them as often as it
\* is in the input, and a node of an unrecognized type is in compute.
C20_SplitPartition ==
    pc = "split_done" =>
        /\ DOMAIN state.stacks \subseteq Range(StackOrder)
        /\ \A name \in DOMAIN state.stacks : state.stacks[name].nodes # <<>>
        /\ \A i \in DOMAIN state.nodes :
              LET node == state.nodes[i]
                  holders == {name \in Range(StackOrder) : InLayer(node, name) > 0}
              IN  /\ Cardinality(holders) = 1
                  /\ \A name \in holders :
                        InLayer(node, name) = Occurrences(node, state.nodes)
                  /\ DataType(node, "") \in {"queue", ""} => holders = {"compute"}
        /\ \A name \in DOMAIN state.stacks :
              \A i \in DOMAIN state.stacks[name].nodes :
                  Occurrences(state.stacks[name].nodes[i], state.nodes) > 0

\* a split of a database, an api, a queue and an untyped node: the queue
\* and the untyped node are in compute and no network layer is returned
C20_Witness ==
    /\ pc = "split_done"
    /\ Len(state.nodes) = 4
    /\ DOMAIN state.stacks = {"data", "compute", "frontend"}
    /\ state.stacks["compute"].nodes
          = <<EditorNode(<<"q">>, [type |-> "queue"]), [id |-> <<"bare">>]>>

-----------------------------------------------------------------------------
(* The rubric on its own: get_security_score applied to a graph.           *)

ScoreInit ==
    /\ pc = "score"
    /\ state \in {[graph |-> g] : g \in FixGraphs}
    /\ entry = state
    /\ llm = NoReply
    /\ request = state

Score ==
    /\ pc = "score"
    /\ state' = With(state, "security_score", get_security_score(state.graph))
    /\ entry' = state
    /\ pc' = "scored"
    /\ UNCHANGED <<llm, request>>

ScoreNext == Score

ScoreSpec == ScoreInit /\ [][ScoreNext]_vars

\* the weights of the categories that have no applicable node in nodes
VacuousWeight(nodes) ==
    (IF OfTypes(nodes, {"api"}) = {} THEN 20 ELSE 0)
    + (IF OfTypes(nodes, {"storage", "database"}) = {} THEN 20 ELSE 0)
    + (IF OfTypes(nodes, {"storage"}) = {} THEN 15 ELSE 0)
    + (IF OfTypes(nodes, {"lambda"}) = {} THEN 15 ELSE 0)
    + (IF OfTypes(nodes, {"queue"}) = {} THEN 10 ELSE 0)
    + (IF OfTypes(nodes, {"api"}) = {} THEN 10 ELSE 0)
    + (IF OfTypes(nodes, {"database"}) = {} THEN 10 ELSE 0)

\* C21: for every graph, the empty one included, the score holds the full
\* weight of every category without applicable nodes, out of a maximum of
\* 100.
C21_VacuousCredit ==
    pc = "scored" =>
        /\ state.security_score.max_score = 100
        /\ state.security_score.score >= VacuousWeight(state.graph.nodes)
        /\ state.security_score.score <= 100

\* C21 as amended: the same for every graph with at least one node, while
\* the graph without nodes scores 0 out of a maximum of 0.
C21_VacuousCreditNonEmpty ==
    pc = "scored" =>
        IF state.graph.nodes = <<>>
        THEN state.security_score = [score |-> 0, max_score |-> 0, percentage |-> 0]
        ELSE /\ state.security_score.max_score = 100
             /\ state.security_score.score >= VacuousWeight(state.graph.nodes)
             /\ state.security_score.score <= 100

\* a lone lambda outside a VPC: every category but the lambda one is
\* without applicable nodes
C21_Witness ==
    /\ pc = "scored"
    /\ Len(state.graph.nodes) = 1
    /\ _resolve_type(state.graph.nodes[1]) = "lambda"
    /\ VacuousWeight(state.graph.nodes) = 85
    /\ state.security_score = [score |-> 85, max_score |-> 100, percentage |-> 85]

-----------------------------------------------------------------------------
(* The single-stack renderer: CDKGenerator.generate.  The text it returns  *)
(* is the sequence of its fragments; an id contributes its pieces and a    *)
(* domain name written in a template is a fragment of its own.             *)

\* the types with an import line, in the sorted order of the import lines
\* (apigateway, cloudfront, cognito, dynamodb, events, kinesis, lambda, s3,
\* sfn, sns, sqs)
ImportOrder ==
    <<"api", "cdn", "auth", "database", "events", "stream", "lambda",
      "storage", "workflow", "notification", "queue">>

\* the module an import line names
ImportOf(t) ==
    CASE t = "api" -> "aws-apigateway"
      [] t = "cdn" -> "aws-cloudfront"
      [] t = "auth" -> "aws-cognito"
      [] t = "database" -> "aws-dynamodb"
      [] t = "events" -> "aws-events"
      [] t = "stream" -> "aws-kinesis"
      [] t = "lambda" -> "aws-lambda"
      [] t = "storage" -> "aws-s3"
      [] t = "workflow" -> "aws-stepfunctions"
      [] t = "notification" -> "aws-sns"
      [] t = "queue" -> "aws-sqs"

\* _get_imports: one line per type that occurs, sorted
_get_imports(nodes) ==
    LET Occurs(t) == \E i \in DOMAIN nodes : DataType(nodes[i], "") = t
        used == SelectSeq(ImportOrder, Occurs)
    IN  [i \in DOMAIN used |-> ImportOf(used[i])]

\* label.lower().replace(" ", "").replace("-", "")
_to_var_name(label) ==
    CASE label = "API" -> "api"
      [] label = "CDN" -> "cdn"
      [] label = "Users API" -> "usersapi"
      [] label = "Notifications" -> "notifications"
      [] label = "my-table" -> "mytable"
      [] label = "Resource" -> "resource"
      [] label = " - " -> ""
      [] OTHER -> label

\* the construct appended for one node; nothing for a type without template
Construct(node) ==
    LET node_id == Get(node, "id", <<>>)
        t == DataType(node, "")
        label == Get(Get(node, "data", EmptyDict), "label", "Resource")
        var_name == _to_var_name(label)
        New(class) == <<"const", var_name, "= new", class>> \o node_id
    IN  CASE t = "lambda" ->
                New("lambda.Function")
                \o <<"runtime: PYTHON_3_12", "handler: index.handler",
                     "timeout: 30", "LOG_LEVEL: INFO">>
          [] t = "api" ->
                New("apigateway.RestApi")
                \o <<"restApiName:", label, "stageName: prod",
                     "tracingEnabled: true", "loggingLevel: INFO",
                     "allowOrigins: https://", "example.com",
                     "// TODO: Configure allowed origins",
                     "allowMethods: ALL_METHODS">>
          [] t = "database" ->
                New("dynamodb.Table")
                \o <<"partitionKey: id", "billingMode: PAY_PER_REQUEST",
                     "encryption: AWS_MANAGED", "pointInTimeRecovery: true",
                     "removalPolicy: DESTROY">>
          [] t = "storage" ->
                New("s3.Bucket")
                \o <<"encryption: S3_MANAGED", "blockPublicAccess: BLOCK_ALL",
                     "enforceSSL: true", "versioned: true",
                     "removalPolicy: DESTROY", "autoDeleteObjects: true">>
          [] t = "queue" ->
                <<"const", var_name, "Dlq", "= new", "sqs.Queue">> \o node_id
                \o <<"Dlq", "encryption: SQS_MANAGED">>
                \o New("sqs.Queue")
                \o <<"encryption: SQS_MANAGED", "deadLetterQueue:", var_name,
                     "Dlq", "maxReceiveCount: 3">>
          [] t = "auth" ->
                New("cognito.UserPool")
                \o <<"selfSignUpEnabled: true", "signInAliases: email",
                     "passwordPolicy: minLength 8", "mfa: OPTIONAL",
                     "advancedSecurityMode: ENFORCED">>
          [] t = "cdn" ->
                New("cloudfront.Distribution")
                \o <<"origin: new cloudfront.HttpOrigin", "example.com",
                     "viewerProtocolPolicy: REDIRECT_TO_HTTPS">>
          [] t = "events" ->
                New("events.EventBus") \o <<"eventBusName:", label>>
          [] t = "notification" ->
                New("sns.Topic") \o <<"displayName:", label>>
          [] t = "workflow" ->
                New("sfn.StateMachine")
                \o <<"definition: new sfn.Pass", "tracingEnabled: true">>
          [] t = "stream" ->
                New("kinesis.Stream")
                \o <<"encryption: MANAGED", "retentionPeriod: 24">>
          [] OTHER -> <<>>

\* _get_node_type: the data.type of the first node with the id, or ""
_get_node_type(nodes, node_id) ==
    LET with_id == {i \in DOMAIN nodes :
                        "id" \in DOMAIN nodes[i] /\ nodes[i].id = node_id}
    IN  IF with_id = {} THEN ""
        ELSE DataType(nodes[CHOOSE i \in with_id : \A j \in with_id : i <= j], "")

\* node_vars.get(node_id): the variable of the last node with the id, "" for
\* None
NodeVar(nodes, node_id) ==
    LET with_id == {i \in DOMAIN nodes : Get(nodes[i], "id", <<>>) = node_id}
        last == CHOOSE i \in with_id : \A j \in with_id : i >= j
    IN  IF with_id = {} THEN ""
        ELSE _to_var_name(Get(Get(nodes[last], "data", EmptyDict),
                              "label", "Resource"))

\* the statement appended for one edge
Wiring(nodes, edge) ==
    LET source_id == Get(edge, "source", <<>>)
        target_id == Get(edge, "target", <<>>)
        source_var == NodeVar(nodes, source_id)
        target_var == NodeVar(nodes, target_id)
        source_type == _get_node_type(nodes, source_id)
        target_type == _get_node_type(nodes, target_id)
    IN  IF source_var = "" \/ target_var = "" THEN <<>>
        ELSE IF source_type = "lambda" /\ target_type = "database"
        THEN <<target_var, ".grantReadWriteData", source_var>>
        ELSE IF source_type = "lambda" /\ target_type = "storage"
        THEN <<target_var, ".grantReadWrite", source_var>>
        ELSE IF source_type = "api" /\ target_type = "lambda"
        THEN <<source_var, ".root.addMethod ANY LambdaIntegration", target_var>>
        ELSE <<>>

\* _generate_constructs
_generate_constructs(nodes, edges) ==
    LET Body[i \in 0..Len(nodes)] ==
            IF i = 0 THEN <<>> ELSE Body[i - 1] \o Construct(nodes[i])
        Wired[i \in 0..Len(edges)] ==
            IF i = 0 THEN Body[Len(nodes)]
            ELSE Wired[i - 1] \o Wiring(nodes, edges[i])
    IN  Wired[Len(edges)]

\* CDKGenerator.generate
generate(nodes, edges) ==
    <<"import aws-cdk-lib", "import constructs">>
    \o _get_imports(nodes)
    \o <<"export class ScaffoldAiStack extends cdk.Stack {">>
    \o _generate_constructs(nodes, edges)
    \o <<"}">>

-----------------------------------------------------------------------------
(* The renderer on its own: generate applied to a list of nodes and edges. *)

\* most nodes of a rendered graph
MaxCdkNodes == 2

CdkNodes ==
    {EditorNode(<<t, "1">>, [type |-> t, label |-> "my-table"]) :
        t \in {"lambda", "api", "database", "storage", "queue", "auth", "cdn",
               "events", "notification", "workflow", "stream", "custom"}}
    \cup {EditorNode(<<"api", "1">>, [type |-> "api", label |-> "Users API"]),
          EditorNode(<<"notif", "1">>,
                     [type |-> "notification", label |-> "Notifications"]),
          EditorNode(<<"database", "1">>, [type |-> "database", label |-> " - "]),
          [id |-> <<"bare">>],
          [data |-> [type |-> "cdn"]]}

CdkEdges ==
    {<<>>,
     <<[source |-> <<"lambda", "1">>, target |-> <<"database", "1">>]>>,
     <<[source |-> <<"lambda", "1">>, target |-> <<"storage", "1">>]>>,
     <<[source |-> <<"api", "1">>, target |-> <<"lambda", "1">>]>>,
     <<[source |-> <<"api", "1">>]>>}

GenerateInit ==
    /\ pc = "generate"
    /\ state \in {[nodes |-> ns, edges |-> es] :
                    ns \in SeqsUpTo(CdkNodes, MaxCdkNodes), es \in CdkEdges}
    /\ entry = state
    /\ llm = NoReply
    /\ request = state

Generate ==
    /\ pc = "generate"
    /\ state' = With(state, "code", generate(state.nodes, state.edges))
    /\ entry' = state
    /\ pc' = "generated"
    /\ UNCHANGED <<llm, request>>

GenerateNext == Generate

GenerateSpec == GenerateInit /\ [][GenerateNext]_vars

\* C22: the text returned by generate never contains the placeholder domain
\* example.com, whatever the nodes and edges.
C22_NoPlaceholderDomain ==
    pc = "generated" => "example.com" \notin Range(state.code)

-----------------------------------------------------------------------------
(* The resolver on its own: _resolve_type applied to one node.  Each of    *)
(* id, data, data.type and data.label may be absent.                       *)

ResolveIds ==
    {<<"n", "1">>, <<"dlq", "processor", "lambda">>, <<"dead", "letter", "1">>,
     <<"orders", "queue">>, <<"api", "1">>, <<"dlq", "1">>}

ResolveLabels ==
    {"Users", "Handler", "Bucket", "REST API", "Cognito Auth", "topic"}

ResolveTypes ==
    {"", "dynamodb", "cognito", "apigateway", "s3", "sqs", "sns", "queue",
     "lambda", "frontend", "notification", "custom"}

ResolveData ==
    {EmptyDict}
    \cup {[type |-> t] : t \in ResolveTypes}
    \cup {[label |-> l] : l \in ResolveLabels}
    \cup {[type |-> t, label |-> l] : t \in ResolveTypes, l \in ResolveLabels}

ResolveNodes ==
    {EmptyDict}
    \cup {[id |-> i] : i \in ResolveIds}
    \cup {[data |-> d] : d \in ResolveData}
    \cup {[id |-> i, data |-> d] : i \in ResolveIds, d \in ResolveData}

ResolveInit ==
    /\ pc = "resolve"
    /\ state \in {[node |-> n] : n \in ResolveNodes}
    /\ entry = state
    /\ llm = NoReply
    /\ request = state

Resolve ==
    /\ pc = "resolve"
    /\ state' = With(state, "resolved", _resolve_type(state.node))
    /\ entry' = state
    /\ pc' = "resolved"
    /\ UNCHANGED <<llm, request>>

ResolveNext == Resolve

ResolveSpec == ResolveInit /\ [][ResolveNext]_vars

\* the canonical type of each legacy raw type
LegacyCanonical ==
    [dynamodb |-> "database", cognito |-> "auth", apigateway |-> "api",
     s3 |-> "storage", sqs |-> "queue"]

\* C23: a node whose raw type is one of the legacy synonyms dynamodb,
\* cognito, apigateway, s3, sqs resolves to database, auth, api, storage,
\* queue respectively.
C23_LegacyNormalized ==
    (pc = "resolved" /\ DataType(state.node, "") \in DOMAIN LegacyCanonical)
        => state.resolved = LegacyCanonical[DataType(state.node, "")]

\* the keyword groups, dlq and lambda included, that id and label hit
GroupsHit(node) ==
    {t \in DOMAIN _TYPE_HINTS : CombinedKeywords(node) \cap _TYPE_HINTS[t] # {}}

-----------------------------------------------------------------------------
(* Properties of the static review by node type, checked under ReviewSpec. *)

\* how many warnings of the review name the service with the severity
WarningsOf(r, service, severity) ==
    Cardinality({i \in DOMAIN r.warnings :
                    /\ r.warnings[i].service = service
                    /\ r.warnings[i].severity = severity})

\* how many recommendations of the review name the service
RecommendationsOf(r, service) ==
    Cardinality({i \in DOMAIN r.recommendations :
                    r.recommendations[i].service = service})

\* C24: for a graph with nodes, the review holds one high warning per api
\* node when no node has type auth and none otherwise, one medium warning
\* per storage node and one per queue node, and no other warning; database,
\* lambda and auth nodes yield recommendations only; a lone api node
\* without authentication scores 85 and a lone storage node 95.
C24_WarningsPerType ==
    (pc = "reviewed" /\ state.graph_json.nodes # <<>>) =>
        LET r == state.security_review
            g == state.graph_json
            apis == NodesOfType(g, "api")
            unauthenticated == IF NodesOfType(g, "auth") = 0 THEN apis ELSE 0
        IN  /\ WarningsOf(r, "API Gateway", "high") = unauthenticated
            /\ WarningsOf(r, "S3", "medium") = NodesOfType(g, "storage")
            /\ WarningsOf(r, "SQS", "medium") = NodesOfType(g, "queue")
            /\ Len(r.warnings) = unauthenticated + NodesOfType(g, "storage")
                                    + NodesOfType(g, "queue")
            /\ RecommendationsOf(r, "DynamoDB") = NodesOfType(g, "database")
            /\ RecommendationsOf(r, "Lambda") = 2 * NodesOfType(g, "lambda")
            /\ RecommendationsOf(r, "Cognito") = NodesOfType(g, "auth")
            /\ (Len(g.nodes) = 1 /\ apis = 1) => r.security_score = 85
            /\ (Len(g.nodes) = 1 /\ NodesOfType(g, "storage") = 1)
                    => r.security_score = 95

\* two api nodes behind an auth node, a bucket and a database: the only
\* warning is the medium one of the bucket
C24_Witness ==
    /\ pc = "reviewed"
    /\ NodesOfType(state.graph_json, "api") = 2
    /\ NodesOfType(state.graph_json, "auth") = 1
    /\ NodesOfType(state.graph_json, "storage") = 1
    /\ NodesOfType(state.graph_json, "database") = 1
    /\ NodesOfType(state.graph_json, "queue") = 0
    /\ Len(state.security_review.warnings) = 1
    /\ WarningsOf(state.security_review, "S3", "medium") = 1
    /\ state.security_review.security_score = 95

\* C30: the static review reports no critical issue; it fails exactly when
\* the graph has four or more api nodes and no auth node, so that with any
\* number of other nodes, whatever the score, the gate lets the run pass on
\* to code generation.
C30_OnlyApisBlock ==
    pc = "reviewed" =>
        LET r == state.security_review
            g == state.graph_json
            blocked == NodesOfType(g, "api") >= 4 /\ NodesOfType(g, "auth") = 0
        IN  /\ r.critical_issues = <<>>
            /\ ~r.passed <=> blocked
            /\ security_gate(state) = (IF blocked THEN "failed" ELSE "passed")

\* ten buckets, ten queues and three api nodes without authentication: the
\* score is 0 and the gate passes
C30_Witness ==
    /\ pc = "reviewed"
    /\ NodesOfType(state.graph_json, "storage") = 10
    /\ NodesOfType(state.graph_json, "queue") = 10
    /\ NodesOfType(state.graph_json, "api") = 3
    /\ state.security_review.security_score = 0
    /\ state.security_review.passed
    /\ security_gate(state) = "passed"

-----------------------------------------------------------------------------
(* The layout on its own: generate_node_positions applied to a list of new *)
(* nodes and a list of existing nodes.                                     *)

\* longest list of new nodes
MaxNewNodes == 3
\* longest list of existing nodes
MaxExistingNodes == 2

\* new nodes as a drafting reply gives them: type, label and id may be absent
NewNodes ==
    {[id |-> ID_A, type |-> "api", label |-> "New"],
     [id |-> ID_AA],
     [id |-> <<"db">>, type |-> "database"],
     [id |-> <<"x">>, type |-> "custom", description |-> "text"],
     [type |-> "api"]}

\* existing nodes as the canvas holds them: data and data.type may be absent
CanvasNodes ==
    {GraphNode(<<"api", "1">>, "api", "Old", 690, 50),
     GraphNode(<<"db", "1">>, "database", "Old", 0, 0),
     GraphNode(<<"s", "1">>, "redis", "Old", 400, 250),
     [id |-> <<"bare">>]}

PositionInit ==
    /\ pc = "position"
    /\ state \in {[nodes |-> ns, existing_nodes |-> es] :
                    ns \in SeqsUpTo(NewNodes, MaxNewNodes),
                    es \in SeqsUpTo(CanvasNodes, MaxExistingNodes)}
    /\ entry = state
    /\ llm = NoReply
    /\ request = state

Position ==
    /\ pc = "position"
    /\ state' = With(state, "positioned",
                     generate_node_positions(state.nodes, state.existing_nodes))
    /\ entry' = state
    /\ pc' = "positioned"
    /\ UNCHANGED <<llm, request>>

PositionNext == Position

PositionSpec == PositionInit /\ [][PositionNext]_vars

\* the lane of a new node and of an existing node
NewLane(node) == type_columns(Get(node, "type", "api"))
CanvasLane(node) == type_columns(DataType(node, "api"))

-----------------------------------------------------------------------------
(* Properties of the edges of a split, checked under SplitSpec.            *)

\* the returned layer has a node whose id is an endpoint of the edge
Owns(name, edge) ==
    /\ name \in DOMAIN state.stacks
    /\ \E i \in DOMAIN state.stacks[name].nodes :
          state.stacks[name].nodes[i].id
              \in {Get(edge, "source", <<>>), Get(edge, "target", <<>>)}

-----------------------------------------------------------------------------
(* Properties of the hardening of topics, checked under AutofixSpec.       *)

\* C28: after analyze_and_fix, every node whose data.type is notification
\* has encryption KMS and access_policy restricted in its config.
C28_TopicsHardened ==
    pc = "fixed" =>
        \A i \in DOMAIN FixedNodes :
            DataType(FixedNodes[i], "") = "notification"
                => /\ ConfigGet(Config(FixedNodes[i]), "encryption") = "KMS"
                   /\ ConfigGet(Config(FixedNodes[i]), "access_policy") = "restricted"

-----------------------------------------------------------------------------
(* Properties of the intent fallback, checked under Spec.                  *)

\* C29: when the call of the intent collaborator raises, interpret_intent
\* returns, with the intent of the first keyword group that the lower-cased
\* user input mentions (generate, explain, modify, in this order, else
\* new_feature) and with every other field of the state as it was.
C29_KeywordFallback ==
    [][(pc = "interpret" /\ llm' = Raises) =>
          LET asks_code ==
                  MentionsAny(state.user_input,
                              <<<<"generate">>, <<"code">>, <<"deploy">>,
                                <<"build">>, <<"cdk">>>>)
              asks_why ==
                  MentionsAny(state.user_input,
                              <<<<"explain">>, <<"what", "is">>,
                                <<"how", "does">>, <<"describe">>>>)
              asks_removal ==
                  MentionsAny(state.user_input,
                              <<<<"remove">>, <<"delete">>, <<"disconnect">>>>)
          IN  /\ pc' = "architect"
              /\ asks_code => state'.intent = "generate_code"
              /\ (~asks_code /\ asks_why) => state'.intent = "explain"
              /\ (~asks_code /\ ~asks_why /\ asks_removal)
                    => state'.intent = "modify_graph"
              /\ (~asks_code /\ ~asks_why /\ ~asks_removal)
                    => state'.intent = "new_feature"
              /\ DOMAIN state' = DOMAIN state
              /\ \A f \in DOMAIN state \ {"intent"} : state'[f] = state[f]]_vars

\* the collaborator failed on an input with an explain and a generate
\* keyword: the intent is generate_code
C29_Witness ==
    /\ pc = "architect"
    /\ llm = Raises
    /\ state.user_input = <<"explain", "the", "code">>
    /\ state.intent = "generate_code"
    /\ state = With(entry, "intent", "generate_code")

====
